---- MODULE Spec2Model ----
(***************************************************************************)
(* A model of the tree-walking pipeline of the interpreter repository:     *)
(* the Interpreter of src/_4_interpretation (its call stack, callable      *)
(* tables and visit_* methods, run step by step on an explicit host stack) *)
(* and the SemanticAnalyzer of src/_3_semantic_analysis.                   *)
(*                                                                         *)
(* Python objects are modelled by records of one shape, text by sequences  *)
(* of one-character strings, floats by exact fractions n/d.                *)
(***************************************************************************)
EXTENDS Integers, Sequences, FiniteSets, TLC

VARIABLES
    tree,        \* the AST handed to interpret() / analyze()
    phase,       \* "ready", then "running" until interpret() has "returned" or
                 \* "raised", resp. "analyzing" until analyze() has "analyzed"
                 \* or "rejected", resp. "parsing" until parse() has "parsed"
                 \* or "failed"
    ctl,         \* host stack: the pending visit_* calls, innermost last
    ret,         \* the object returned by the call that finished last
    exc,         \* the exception in flight (NoException when none)
    call_stack,  \* Interpreter._call_stack._activation_records
    functions,   \* Interpreter._functions
    procedures,  \* Interpreter._procedures
    out,         \* the lines written by print(), oldest first
    current_scope, \* SemanticAnalyzer._current_scope and the scopes
                 \* enclosing it, outermost first
    text,        \* LexicalAnalyzer.text, the source handed to the scanner
    lexer,       \* LexicalAnalyzer: position, current_char, line, column
    current_token, \* SyntacticAnalyzer._current_token
    peeked       \* the token the last call of _peek_next_token returned

vars ==
    <<tree, phase, ctl, ret, exc, call_stack, functions, procedures, out,
      current_scope, text, lexer, current_token, peeked>>

(***************************************************************************)
(* Bounds of the model.                                                    *)
(***************************************************************************)
\* operands of the generated arithmetic programs range over -MaxInt..MaxInt
MaxInt == 3
\* the host's recursion limit, scaled down: a call that would make the host
\* stack deeper than this raises RecursionError
MaxDepth == 40
\* the generated counting loops run MaxLoop iterations
MaxLoop == 2

(***************************************************************************)
(* Python values.  t is the class, n/d the number (d = 1 for int and bool),*)
(* s the text of a str, gt the class of the value held by a {"give": v}    *)
(* dict (whose n, d, s are then v's).                                      *)
(***************************************************************************)
Obj(t, gt, n, d, s) == [t |-> t, gt |-> gt, n |-> n, d |-> d, s |-> s]

None == Obj("None", "", 0, 1, <<>>)

PyInt(n) == Obj("int", "", n, 1, <<>>)

PyBool(b) == Obj("bool", "", IF b THEN 1 ELSE 0, 1, <<>>)

PyStr(s) == Obj("str", "", 0, 1, s)

Abs(n) == IF n < 0 THEN -n ELSE n

RECURSIVE Gcd(_, _)
Gcd(a, b) == IF b = 0 THEN a ELSE Gcd(b, a % b)

\* a float, kept as the fraction n/d in lowest terms with d > 0
PyFloat(n, d) ==
    LET g == Gcd(Abs(n), Abs(d))
        sgn == IF d < 0 THEN -1 ELSE 1
    IN  Obj("float", "", sgn * (n \div g), sgn * (d \div g), <<>>)

\* {"give": v}
GiveDict(v) == Obj("dict", v.t, v.n, v.d, v.s)

\* d["give"]
GiveValue(d) == Obj(d.gt, "", d.n, d.d, d.s)

IsTrue(v) == v.t = "bool" /\ v.n = 1

IsNumeric(v) == v.t \in {"int", "bool", "float"}

(***************************************************************************)
(* Exceptions.                                                             *)
(***************************************************************************)
Exception(class, code) == [class |-> class, code |-> code]

NoException == Exception("", "")

SkipException == Exception("SkipException", "")

StopException == Exception("StopException", "")

RuntimeError(code) == Exception("RuntimeError", code)

(***************************************************************************)
(* What one step of a visit_* method does to the host stack.               *)
(***************************************************************************)
\* return v
Return(v) == [kind |-> "return", value |-> v]

\* raise e
Raise(e) == [kind |-> "raise", exc |-> e]

\* self.visit(node), the calling frame going on as frame f when it returns
Visit(f, node) == [kind |-> "visit", frame |-> f, fn |-> node.kind, node |-> node]

\* self._evaluate_boolean_expression(node), likewise
Evaluate(f, node) ==
    [kind |-> "visit", frame |-> f, fn |-> "_evaluate_boolean_expression", node |-> node]

(***************************************************************************)
(* Text.  A str is a sequence of characters; str(), int() and float() are  *)
(* the conversions Python applies.                                         *)
(***************************************************************************)
Digits == <<"0", "1", "2", "3", "4", "5", "6", "7", "8", "9">>

DigitValue(c) == (CHOOSE k \in 1..10 : Digits[k] = c) - 1

RECURSIVE NatStr(_)
NatStr(n) ==
    IF n < 10 THEN <<Digits[n + 1]>>
    ELSE NatStr(n \div 10) \o <<Digits[(n % 10) + 1]>>

IntStr(n) == IF n < 0 THEN <<"-">> \o NatStr(-n) ELSE NatStr(n)

\* the decimal digits of r/d behind the point, r < d, at most k of them
RECURSIVE FractionDigits(_, _, _)
FractionDigits(r, d, k) ==
    IF r = 0 \/ k = 0 THEN <<>>
    ELSE <<Digits[((r * 10) \div d) + 1]>> \o FractionDigits((r * 10) % d, d, k - 1)

\* repr of a float whose decimal expansion ends within 17 digits
FloatStr(n, d) ==
    LET whole == Abs(n) \div d
        frac == FractionDigits(Abs(n) % d, d, 17)
    IN  (IF n < 0 THEN <<"-">> ELSE <<>>) \o NatStr(whole) \o <<".">>
            \o (IF frac = <<>> THEN <<"0">> ELSE frac)

\* str(v), as print() and string concatenation use it
Str(v) ==
    CASE v.t = "str" -> v.s
      [] v.t = "bool" -> IF v.n = 1 THEN <<"T", "r", "u", "e">>
                         ELSE <<"F", "a", "l", "s", "e">>
      [] v.t = "int" -> IntStr(v.n)
      [] v.t = "float" -> FloatStr(v.n, v.d)
      [] v.t = "None" -> <<"N", "o", "n", "e">>

RECURSIVE ParseNat(_)
ParseNat(cs) ==
    IF cs = <<>> THEN 0
    ELSE 10 * ParseNat(SubSeq(cs, 1, Len(cs) - 1)) + DigitValue(cs[Len(cs)])

RECURSIVE Power(_, _)
Power(b, e) == IF e = 0 THEN 1 ELSE b * Power(b, e - 1)

HasPoint(lexeme) == \E i \in DOMAIN lexeme : lexeme[i] = "."

\* float(lexeme) if "." in lexeme else int(lexeme)
NumberOfLexeme(lexeme) ==
    IF HasPoint(lexeme)
    THEN LET p == CHOOSE i \in DOMAIN lexeme : lexeme[i] = "."
             whole == SubSeq(lexeme, 1, p - 1)
             frac == SubSeq(lexeme, p + 1, Len(lexeme))
         IN  PyFloat(ParseNat(whole \o frac), Power(10, Len(frac)))
    ELSE PyInt(ParseNat(lexeme))

(***************************************************************************)
(* Arithmetic of the host language on the modelled values.                 *)
(***************************************************************************)
\* x / y rounded towards zero: the quotient a floor division must differ
\* from when the signs differ
TruncDiv(x, y) ==
    IF (x < 0) = (y < 0) THEN Abs(x) \div Abs(y) ELSE -(Abs(x) \div Abs(y))

\* floor(x / y) for integers, y # 0
FloorDiv(x, y) == IF y > 0 THEN x \div y ELSE (-x) \div (-y)

\* the number n/d as a float if either operand is one, else as an int
Number(a, b, n, d) ==
    IF a.t = "float" \/ b.t = "float" THEN PyFloat(n, d) ELSE PyInt(n \div d)

TypeError == Exception("TypeError", "")

ZeroDivisionError == Exception("ZeroDivisionError", "")

RECURSIVE Repeat(_, _)
Repeat(s, k) == IF k <= 0 THEN <<>> ELSE s \o Repeat(s, k - 1)

\* right_operand == 0
IsZero(v) == IsNumeric(v) /\ v.n = 0

\* left_operand ** right_operand, for a right operand with an integral value
PyPower(a, b) ==
    CASE ~(IsNumeric(a) /\ IsNumeric(b)) -> Raise(TypeError)
      [] IsNumeric(a) /\ IsNumeric(b) /\ b.d = 1 /\ b.n >= 0 ->
            Return(Number(a, b, Power(a.n, b.n), Power(a.d, b.n)))
      [] IsNumeric(a) /\ IsNumeric(b) /\ b.d = 1 /\ b.n < 0 ->
            IF a.n = 0 THEN Raise(ZeroDivisionError)
            ELSE Return(PyFloat(Power(a.d, -b.n), Power(a.n, -b.n)))

(***************************************************************************)
(* The AST (src/_2_syntactic_analysis/ast.py).  kind is the node's class;  *)
(* an Optional list is <<>> for None and <<l>> for the list l, an Optional *)
(* node is NoNode for None.                                                *)
(***************************************************************************)
Some(x) == <<x>>

NoNode == [kind |-> "None"]

\* "x or []" of an Optional list x
OrEmpty(x) == IF x = <<>> THEN <<>> ELSE x[1]

NodeBlock(statements) == [kind |-> "NodeBlock", statements |-> statements]

NodeProgram(block) == [kind |-> "NodeProgram", block |-> block]

NodeType(name) == [kind |-> "NodeType", name |-> name]

NodeIdentifier(name) == [kind |-> "NodeIdentifier", name |-> name]

NodeVariableDeclaration(type, identifiers, expressions) ==
    [kind |-> "NodeVariableDeclaration", type |-> type,
     identifiers |-> identifiers, expressions |-> expressions]

NodeConstantDeclaration(type, identifiers, expressions) ==
    [kind |-> "NodeConstantDeclaration", type |-> type,
     identifiers |-> identifiers, expressions |-> Some(expressions)]

NodeAssignmentStatement(identifier, expression) ==
    [kind |-> "NodeAssignmentStatement", identifier |-> identifier,
     expression |-> expression]

NodeGiveStatement(expression) == [kind |-> "NodeGiveStatement", expression |-> expression]

NodeShowStatement(expression) == [kind |-> "NodeShowStatement", expression |-> expression]

NodeElif(condition, block) == [kind |-> "NodeElif", condition |-> condition, block |-> block]

NodeElse(block) == [kind |-> "NodeElse", block |-> block]

NodeIfStatement(condition, block, elifs, else_) ==
    [kind |-> "NodeIfStatement", condition |-> condition, block |-> block,
     elifs |-> elifs, else_ |-> else_]

NodeWhileStatement(condition, block) ==
    [kind |-> "NodeWhileStatement", condition |-> condition, block |-> block]

NodeSkipStatement == [kind |-> "NodeSkipStatement"]

NodeStopStatement == [kind |-> "NodeStopStatement"]

NodeParameter(identifier, type) ==
    [kind |-> "NodeParameter", identifier |-> identifier, type |-> type]

NodeFunctionDeclaration(identifier, parameters, give_type, block) ==
    [kind |-> "NodeFunctionDeclaration", identifier |-> identifier,
     parameters |-> parameters, give_type |-> give_type, block |-> block]

NodeProcedureDeclaration(identifier, parameters, block) ==
    [kind |-> "NodeProcedureDeclaration", identifier |-> identifier,
     parameters |-> parameters, block |-> block]

NodeFunctionCall(identifier, arguments) ==
    [kind |-> "NodeFunctionCall", identifier |-> identifier, arguments |-> arguments]

NodeProcedureCall(identifier, arguments) ==
    [kind |-> "NodeProcedureCall", identifier |-> identifier, arguments |-> arguments]

NodeBinaryArithmeticOperation(left, operator, right) ==
    [kind |-> "NodeBinaryArithmeticOperation", left |-> left,
     operator |-> operator, right |-> right]

NodeUnaryArithmeticOperation(operator, operand) ==
    [kind |-> "NodeUnaryArithmeticOperation", operator |-> operator, operand |-> operand]

NodeArithmeticExpressionAsBoolean(expression) ==
    [kind |-> "NodeArithmeticExpressionAsBoolean", expression |-> expression]

NodeBinaryBooleanOperation(left, logical_operator, right) ==
    [kind |-> "NodeBinaryBooleanOperation", left |-> left,
     logical_operator |-> logical_operator, right |-> right]

NodeUnaryBooleanOperation(logical_operator, operand) ==
    [kind |-> "NodeUnaryBooleanOperation", logical_operator |-> logical_operator,
     operand |-> operand]

NodeComparisonExpression(left, comparator, right) ==
    [kind |-> "NodeComparisonExpression", left |-> left,
     comparator |-> comparator, right |-> right]

NodeNumberLiteral(lexeme) == [kind |-> "NodeNumberLiteral", lexeme |-> lexeme]

NodeStringLiteral(lexeme) == [kind |-> "NodeStringLiteral", lexeme |-> lexeme]

NodeBooleanLiteral(lexeme) == [kind |-> "NodeBooleanLiteral", lexeme |-> lexeme]

(***************************************************************************)
(* Symbols and activation records.                                         *)
(***************************************************************************)
VariableSymbol(identifier, type) ==
    [kind |-> "VariableSymbol", identifier |-> identifier, type |-> type]

ConstantSymbol(identifier, type) ==
    [kind |-> "ConstantSymbol", identifier |-> identifier, type |-> type,
     is_constant |-> TRUE]

FunctionSymbol(identifier, parameters, give_type, block) ==
    [kind |-> "FunctionSymbol", identifier |-> identifier,
     parameters |-> parameters, give_type |-> give_type, block |-> block]

ProcedureSymbol(identifier, parameters, block) ==
    [kind |-> "ProcedureSymbol", identifier |-> identifier,
     parameters |-> parameters, block |-> block]

BuiltInTypeSymbol(identifier) == [kind |-> "BuiltInTypeSymbol", identifier |-> identifier]

\* an empty dict
EmptyDict == [k \in {} |-> None]

\* d[key] = value
SetItem(d, key, value) == (key :> value) @@ d

ActivationRecord(name, type, nesting_level) ==
    [name |-> name, type |-> type, nesting_level |-> nesting_level,
     members |-> EmptyDict]

\* CallStack.push
push(stack, record) == Append(stack, record)

\* CallStack.pop
pop(stack) == SubSeq(stack, 1, Len(stack) - 1)

\* CallStack.peek
peek(stack) == stack[Len(stack)]

(***************************************************************************)
(* The host stack.  A frame is one pending call of a method of the visitor:*)
(* fn the method, node its argument, pc where it stands, and its locals:   *)
(* i a loop index, rec the index in call_stack of the activation record it *)
(* holds a reference to, loc the values computed so far, sym the symbol it *)
(* looked up.                                                              *)
(***************************************************************************)
Frame(fn, node) ==
    [fn |-> fn, node |-> node, pc |-> "start", i |-> 0, rec |-> 0,
     loc |-> <<>>, sym |-> <<>>]

Top == ctl[Len(ctl)]

Rest == SubSeq(ctl, 1, Len(ctl) - 1)

\* the frame goes on at pc
At(f, pc) == [f EXCEPT !.pc = pc]

\* a step inside the method: the frame goes on as f
Goto(f) == [kind |-> "goto", frame |-> f]

RecursionError == Exception("RecursionError", "")

\* the phase once the host stack is s and exception e is in flight
PhaseOf(s, e) ==
    IF s # <<>> THEN phase
    ELSE IF phase = "running" THEN (IF e = NoException THEN "returned" ELSE "raised")
    ELSE IF phase = "parsing" THEN (IF e = NoException THEN "parsed" ELSE "failed")
    ELSE IF e = NoException THEN "analyzed" ELSE "rejected"

\* the effect of outcome o of the innermost frame on the host stack
Apply(o) ==
    LET raised == IF o.kind = "raise" THEN o.exc
                  ELSE IF o.kind = "visit" /\ Len(ctl) >= MaxDepth THEN RecursionError
                  ELSE NoException
        stack == CASE raised # NoException -> Rest
                   [] raised = NoException /\ o.kind = "return" -> Rest
                   [] raised = NoException /\ o.kind = "goto" -> Rest \o <<o.frame>>
                   [] raised = NoException /\ o.kind = "visit" ->
                        Rest \o <<o.frame, Frame(o.fn, o.node)>>
    IN  /\ ctl' = stack
        /\ exc' = raised
        /\ ret' = IF raised = NoException /\ o.kind = "return" THEN o.value ELSE None
        /\ phase' = PhaseOf(stack, raised)

\* the innermost pending call is a call of fn, and no exception is in flight
Running(fn) ==
    /\ phase = "running"
    /\ exc = NoException
    /\ Top.fn = fn

\* isinstance(result, dict) and "give" in result
IsGive(result) == result.t = "dict"

(***************************************************************************)
(* Interpreter (src/_4_interpretation/interpreter.py).                     *)
(***************************************************************************)
interpret ==
    /\ phase = "ready"
    /\ phase' = "running"
    /\ ctl' = <<Frame(tree.kind, tree)>>
    /\ UNCHANGED <<text, lexer, current_token, peeked, current_scope, tree, ret, exc, call_stack, functions, procedures, out>>

visit_NodeProgram ==
    /\ Running("NodeProgram")
    /\ IF Top.pc = "start"
       THEN /\ call_stack' = push(call_stack, ActivationRecord("program", "PROGRAM", 1))
            /\ Apply(Visit(At(Top, "block"), Top.node.block))
       ELSE /\ call_stack' = pop(call_stack)
            /\ Apply(Return(None))
    /\ UNCHANGED <<text, lexer, current_token, peeked, current_scope, tree, functions, procedures, out>>

\* the loop of visit_NodeBlock, about to take statement number i
BlockLoop(f, i) ==
    LET statements == OrEmpty(f.node.statements)
    IN  IF i > Len(statements) THEN Return(None)
        ELSE Visit([f EXCEPT !.pc = "statement", !.i = i], statements[i])

\* a block that goes on whatever its statement returned
BlockIgnoringGive(f, result) == BlockLoop(f, f.i + 1)

\* visit_NodeBlock once a statement has returned result
BlockAfterStatement(f, result) ==
    IF IsGive(result) THEN Return(result) ELSE BlockLoop(f, f.i + 1)

visit_NodeBlock ==
    /\ Running("NodeBlock")
    /\ Apply(IF Top.pc = "start" THEN BlockLoop(Top, 1)
             ELSE BlockAfterStatement(Top, ret))
    /\ UNCHANGED <<text, lexer, current_token, peeked, current_scope, tree, call_stack, functions, procedures, out>>

\* visit_NodeGiveStatement
GiveStep(f, value) ==
    IF f.pc = "start"
    THEN IF f.node.expression # NoNode
         THEN Visit(At(f, "expression"), f.node.expression)
         ELSE Return(GiveDict(None))
    ELSE Return(GiveDict(value))

visit_NodeGiveStatement ==
    /\ Running("NodeGiveStatement")
    /\ Apply(GiveStep(Top, ret))
    /\ UNCHANGED <<text, lexer, current_token, peeked, current_scope, tree, call_stack, functions, procedures, out>>

\* what print(value) writes
Printed(value) == Str(value)

visit_NodeShowStatement ==
    /\ Running("NodeShowStatement")
    /\ IF Top.pc = "start"
       THEN /\ Apply(Visit(At(Top, "expression"), Top.node.expression))
            /\ out' = out
       ELSE /\ out' = Append(out, Printed(ret))
            /\ Apply(Return(None))
    /\ UNCHANGED <<text, lexer, current_token, peeked, current_scope, tree, call_stack, functions, procedures>>

visit_NodeNumberLiteral ==
    /\ Running("NodeNumberLiteral")
    /\ Apply(Return(NumberOfLexeme(Top.node.lexeme)))
    /\ UNCHANGED <<text, lexer, current_token, peeked, current_scope, tree, call_stack, functions, procedures, out>>

visit_NodeStringLiteral ==
    /\ Running("NodeStringLiteral")
    /\ Apply(Return(PyStr(SubSeq(Top.node.lexeme, 2, Len(Top.node.lexeme) - 1))))
    /\ UNCHANGED <<text, lexer, current_token, peeked, current_scope, tree, call_stack, functions, procedures, out>>

visit_NodeBooleanLiteral ==
    /\ Running("NodeBooleanLiteral")
    /\ Apply(Return(PyBool(Top.node.lexeme = <<"t", "r", "u", "e">>)))
    /\ UNCHANGED <<text, lexer, current_token, peeked, current_scope, tree, call_stack, functions, procedures, out>>

\* an exception passes through a call that does not catch it
Propagate ==
    /\ phase \in {"running", "analyzing", "parsing"}
    /\ exc # NoException
    /\ ~(Top.fn = "NodeWhileStatement" /\ exc \in {SkipException, StopException})
    /\ ctl' = Rest
    /\ phase' = PhaseOf(Rest, exc)
    /\ UNCHANGED <<text, lexer, current_token, peeked, current_scope, tree, ret, exc, call_stack, functions, procedures, out>>

\* Interpreter.DEFAULT_VALUES
DEFAULT_VALUES ==
    [number |-> PyInt(0), string |-> PyStr(<<>>), boolean |-> PyBool(FALSE)]

KeyError == Exception("KeyError", "")

IndexError == Exception("IndexError", "")

AttributeError == Exception("AttributeError", "")

ValueError == Exception("ValueError", "")

AssertionError == Exception("AssertionError", "")

\* a binding that is made once: a key the record binds keeps its value
StoreUnlessBound(stack, rec, key, value) ==
    IF key \in DOMAIN stack[rec].members THEN stack
    ELSE [stack EXCEPT ![rec].members = (key :> value) @@ @]

\* storage shared by the records: the value goes to every record of the
\* stack that binds the key, and to the record at index rec
StoreWhereBound(stack, rec, key, value) ==
    [k \in DOMAIN stack |->
        IF k = rec \/ key \in DOMAIN stack[k].members
        THEN [stack[k] EXCEPT !.members = (key :> value) @@ @]
        ELSE stack[k]]

\* record[key] = value, for the activation record at index rec of the call stack
Store(stack, rec, key, value) ==
    [stack EXCEPT ![rec].members = SetItem(@, key, value)]

\* node.expressions and index < len(node.expressions), index counted from 1
HasInitializer(node, i) == i <= Len(OrEmpty(node.expressions))

\* the loop of visit_NodeVariableDeclaration at its identifier number f.i
VariableDeclarationLoop(f) ==
    IF f.i > Len(f.node.identifiers) THEN Return(None)
    ELSE IF HasInitializer(f.node, f.i)
    THEN Visit(At(f, "expression"), f.node.expressions[1][f.i])
    ELSE IF f.node.type.name \in DOMAIN DEFAULT_VALUES
    THEN Goto([f EXCEPT !.i = f.i + 1])
    ELSE Raise(KeyError)

visit_NodeVariableDeclaration ==
    /\ Running("NodeVariableDeclaration")
    /\ LET f == IF Top.pc = "start"
                THEN [Top EXCEPT !.pc = "loop", !.i = 1, !.rec = Len(call_stack)]
                ELSE Top
           name == f.node.identifiers[f.i].name
       IN  IF f.pc = "loop"
           THEN /\ Apply(VariableDeclarationLoop(f))
                /\ call_stack' =
                     IF VariableDeclarationLoop(f).kind = "goto"
                     THEN Store(call_stack, f.rec, name, DEFAULT_VALUES[f.node.type.name])
                     ELSE call_stack
           ELSE /\ Apply(Goto([f EXCEPT !.pc = "loop", !.i = f.i + 1]))
                /\ call_stack' = Store(call_stack, f.rec, name, ret)
    /\ UNCHANGED <<text, lexer, current_token, peeked, current_scope, tree, functions, procedures, out>>

\* the loop of visit_NodeConstantDeclaration at its identifier number f.i
ConstantDeclarationLoop(f) ==
    IF f.i > Len(f.node.identifiers) THEN Return(None)
    ELSE IF f.i <= Len(f.node.expressions[1])
    THEN Visit(At(f, "expression"), f.node.expressions[1][f.i])
    ELSE Raise(IndexError)

visit_NodeConstantDeclaration ==
    /\ Running("NodeConstantDeclaration")
    /\ LET f == IF Top.pc = "start"
                THEN [Top EXCEPT !.pc = "loop", !.i = 1, !.rec = Len(call_stack)]
                ELSE Top
       IN  IF f.pc = "loop"
           THEN /\ Apply(ConstantDeclarationLoop(f))
                /\ call_stack' = call_stack
           ELSE /\ Apply(Goto([f EXCEPT !.pc = "loop", !.i = f.i + 1]))
                /\ call_stack' =
                     Store(call_stack, f.rec, f.node.identifiers[f.i].name, ret)
    /\ UNCHANGED <<text, lexer, current_token, peeked, current_scope, tree, functions, procedures, out>>

visit_NodeAssignmentStatement ==
    /\ Running("NodeAssignmentStatement")
    /\ IF Top.pc = "start"
       THEN /\ Apply(Visit(At(Top, "expression"), Top.node.expression))
            /\ call_stack' = call_stack
       ELSE /\ Apply(Return(None))
            /\ call_stack' =
                 Store(call_stack, Len(call_stack), Top.node.identifier.name, ret)
    /\ UNCHANGED <<text, lexer, current_token, peeked, current_scope, tree, functions, procedures, out>>

\* [VariableSymbol(p.identifier.name, p.type.name) for p in (node.parameters or [])]
ParameterSymbols(node) ==
    LET ps == OrEmpty(node.parameters)
    IN  [k \in DOMAIN ps |-> VariableSymbol(ps[k].identifier.name, ps[k].type.name)]

visit_NodeFunctionDeclaration ==
    /\ Running("NodeFunctionDeclaration")
    /\ functions' =
         SetItem(functions, Top.node.identifier.name,
                 FunctionSymbol(Top.node.identifier.name, Some(ParameterSymbols(Top.node)),
                                Top.node.give_type.name, Top.node.block))
    /\ Apply(Return(None))
    /\ UNCHANGED <<text, lexer, current_token, peeked, current_scope, tree, call_stack, procedures, out>>

visit_NodeProcedureDeclaration ==
    /\ Running("NodeProcedureDeclaration")
    /\ procedures' =
         SetItem(procedures, Top.node.identifier.name,
                 ProcedureSymbol(Top.node.identifier.name, Some(ParameterSymbols(Top.node)),
                                 Top.node.block))
    /\ Apply(Return(None))
    /\ UNCHANGED <<text, lexer, current_token, peeked, current_scope, tree, call_stack, functions, out>>

\* table.get(name)
Get(table, name) == IF name \in DOMAIN table THEN Some(table[name]) ELSE <<>>

\* the argument loop of a call once f.i arguments are evaluated
ArgumentLoop(f) ==
    LET arguments == OrEmpty(f.node.arguments)
    IN  IF f.i < Len(arguments)
        THEN Visit([f EXCEPT !.pc = "argument", !.i = f.i + 1], arguments[f.i + 1])
        ELSE Goto(At(f, "enter"))

\* for parameter, argument in zip(parameters, arguments):
\*     record[parameter.identifier] = argument
RECURSIVE BindParameters(_, _, _, _)
BindParameters(members, parameters, arguments, k) ==
    IF k > Len(parameters) \/ k > Len(arguments) THEN members
    ELSE BindParameters(SetItem(members, parameters[k].identifier, arguments[k]),
                        parameters, arguments, k + 1)

\* a call that starts from no members at all
NoMembers(caller) == EmptyDict

\* the members a call starts from: those of the caller's record
InheritedMembers(caller) == caller.members

\* the activation record of a call of symbol with the evaluated arguments
CalleeRecord(symbol, type, arguments, caller) ==
    [ActivationRecord(symbol.identifier, type, caller.nesting_level + 1)
        EXCEPT !.members =
            BindParameters(InheritedMembers(caller), OrEmpty(symbol.parameters),
                           arguments, 1)]

\* a call that returns whatever its body gave, None included
GivenOrNone(execution_result) ==
    Return(IF IsGive(execution_result) THEN GiveValue(execution_result) ELSE None)

\* a call that returns None whatever its body gave
AlwaysNone(execution_result) == Return(None)

\* what a function call makes of the result of its body
FunctionResult(execution_result) ==
    IF IsGive(execution_result)
    THEN IF GiveValue(execution_result) # None
         THEN Return(GiveValue(execution_result))
         ELSE Raise(RuntimeError("FUNCTION_EMPTY_GIVE"))
    ELSE Raise(RuntimeError("FUNCTION_NOT_GIVING"))

\* what a procedure call makes of the result of its body
ProcedureResult(execution_result) ==
    IF IsGive(execution_result) /\ GiveValue(execution_result) # None
    THEN Raise(RuntimeError("PROCEDURE_GIVING_VALUE"))
    ELSE Return(None)

\* the steps common to visit_NodeFunctionCall and visit_NodeProcedureCall
\* (rec is the index of current_record, the record on top before the push)
CallStep(f, table, type, result) ==
    CASE f.pc = "start" ->
            /\ Apply(ArgumentLoop([f EXCEPT !.sym = Get(table, f.node.identifier.name)]))
            /\ call_stack' = call_stack
      [] f.pc = "argument" ->
            /\ Apply(ArgumentLoop([f EXCEPT !.loc = Append(f.loc, ret)]))
            /\ call_stack' = call_stack
      [] f.pc = "enter" ->
            IF f.sym = <<>>
            THEN /\ Apply(Raise(AttributeError))
                 /\ call_stack' = call_stack
            ELSE /\ call_stack' =
                      push(call_stack,
                           CalleeRecord(f.sym[1], type, f.loc, peek(call_stack)))
                 /\ Apply(Visit([f EXCEPT !.pc = "body", !.rec = Len(call_stack)],
                                f.sym[1].block))
      [] f.pc = "body" ->
            /\ call_stack' = pop(call_stack)
            /\ Apply(result)

visit_NodeFunctionCall ==
    /\ Running("NodeFunctionCall")
    /\ CallStep(Top, functions, "FUNCTION", FunctionResult(ret))
    /\ UNCHANGED <<text, lexer, current_token, peeked, current_scope, tree, functions, procedures, out>>

visit_NodeProcedureCall ==
    /\ Running("NodeProcedureCall")
    /\ CallStep(Top, procedures, "PROCEDURE", ProcedureResult(ret))
    /\ UNCHANGED <<text, lexer, current_token, peeked, current_scope, tree, functions, procedures, out>>

\* the elif loop of visit_NodeIfStatement, about to take elif number i
ElifLoop(f, i) ==
    LET elifs == OrEmpty(f.node.elifs)
    IN  IF i <= Len(elifs)
        THEN Evaluate([f EXCEPT !.pc = "elif", !.i = i], elifs[i].condition)
        ELSE IF f.node.else_ # NoNode
        THEN Visit(At(f, "return"), f.node.else_.block)
        ELSE Return(None)

\* visit_NodeIfStatement
IfStep(f, result) ==
    CASE f.pc = "start" -> Evaluate(At(f, "condition"), f.node.condition)
      [] f.pc = "condition" ->
            IF IsTrue(result) THEN Visit(At(f, "return"), f.node.block)
            ELSE ElifLoop(f, 1)
      [] f.pc = "elif" ->
            IF IsTrue(result)
            THEN Visit(At(f, "return"), OrEmpty(f.node.elifs)[f.i].block)
            ELSE ElifLoop(f, f.i + 1)
      [] f.pc = "return" -> Return(result)

visit_NodeIfStatement ==
    /\ Running("NodeIfStatement")
    /\ Apply(IfStep(Top, ret))
    /\ UNCHANGED <<text, lexer, current_token, peeked, current_scope, tree, call_stack, functions, procedures, out>>

\* the head of the while True loop: the condition is evaluated
WhileIteration(f) == Evaluate(At(f, "condition"), f.node.condition)

\* visit_NodeWhileStatement while no exception is in flight
WhileStep(f, result) ==
    CASE f.pc = "start" -> WhileIteration(f)
      [] f.pc = "condition" ->
            IF ~IsTrue(result) THEN Return(None)
            ELSE Visit(At(f, "block"), f.node.block)
      [] f.pc = "block" ->
            IF IsGive(result) THEN Return(result) ELSE WhileIteration(f)

\* a loop that ends on skip as it does on stop
EndsLoop(f, e) == Return(None)

\* the except clauses of visit_NodeWhileStatement
WhileExcept(f, e) ==
    IF e = SkipException THEN WhileIteration(f) ELSE Return(None)

visit_NodeWhileStatement ==
    /\ phase = "running"
    /\ Top.fn = "NodeWhileStatement"
    /\ exc \in {NoException, SkipException, StopException}
    /\ Apply(IF exc = NoException THEN WhileStep(Top, ret) ELSE WhileExcept(Top, exc))
    /\ UNCHANGED <<text, lexer, current_token, peeked, current_scope, tree, call_stack, functions, procedures, out>>

visit_NodeSkipStatement ==
    /\ Running("NodeSkipStatement")
    /\ Apply(Raise(SkipException))
    /\ UNCHANGED <<text, lexer, current_token, peeked, current_scope, tree, call_stack, functions, procedures, out>>

visit_NodeStopStatement ==
    /\ Running("NodeStopStatement")
    /\ Apply(Raise(StopException))
    /\ UNCHANGED <<text, lexer, current_token, peeked, current_scope, tree, call_stack, functions, procedures, out>>

\* visit_NodeIdentifier on the activation record on top of the call stack
IdentifierValue(record, name) ==
    IF name \in DOMAIN record.members THEN Return(record.members[name])
    ELSE Raise(RuntimeError("UNDECLARED_IDENTIFIER"))

visit_NodeIdentifier ==
    /\ Running("NodeIdentifier")
    /\ Apply(IdentifierValue(peek(call_stack), Top.node.name))
    /\ UNCHANGED <<text, lexer, current_token, peeked, current_scope, tree, call_stack, functions, procedures, out>>

\* the operator applied by visit_NodeBinaryArithmeticOperation
BinaryArithmetic(operator, l, r) ==
    LET numbers == IsNumeric(l) /\ IsNumeric(r)
        quotient == FloorDiv(l.n * r.d, l.d * r.n)
    IN  CASE operator = "+" ->
                IF l.t = "str" \/ r.t = "str" THEN Return(PyStr(Str(l) \o Str(r)))
                ELSE Return(Number(l, r, l.n * r.d + r.n * l.d, l.d * r.d))
          [] operator = "-" ->
                IF numbers THEN Return(Number(l, r, l.n * r.d - r.n * l.d, l.d * r.d))
                ELSE Raise(TypeError)
          [] operator = "*" ->
                IF numbers THEN Return(Number(l, r, l.n * r.n, l.d * r.d))
                ELSE IF l.t = "str" /\ r.t \in {"int", "bool"}
                THEN Return(PyStr(Repeat(l.s, r.n)))
                ELSE IF r.t = "str" /\ l.t \in {"int", "bool"}
                THEN Return(PyStr(Repeat(r.s, l.n)))
                ELSE Raise(TypeError)
          [] operator = "/" ->
                IF IsZero(r) THEN Raise(RuntimeError("DIVISION_BY_ZERO"))
                ELSE IF numbers THEN Return(PyFloat(l.n * r.d, l.d * r.n))
                ELSE Raise(TypeError)
          [] operator = "//" ->
                IF IsZero(r) THEN Raise(RuntimeError("DIVISION_BY_ZERO"))
                ELSE IF numbers THEN Return(Number(l, r, quotient, 1))
                ELSE Raise(TypeError)
          [] operator = "%" ->
                IF IsZero(r) THEN Raise(RuntimeError("DIVISION_BY_ZERO"))
                ELSE IF numbers
                THEN Return(Number(l, r, l.n * r.d - quotient * r.n * l.d, l.d * r.d))
                ELSE Raise(TypeError)
          [] operator = "**" -> PyPower(l, r)
          [] OTHER -> Raise(RuntimeError("INVALID_OPERATION"))

visit_NodeBinaryArithmeticOperation ==
    /\ Running("NodeBinaryArithmeticOperation")
    /\ Apply(CASE Top.pc = "start" -> Visit(At(Top, "left"), Top.node.left)
               [] Top.pc = "left" ->
                    Visit([Top EXCEPT !.pc = "right", !.loc = <<ret>>], Top.node.right)
               [] Top.pc = "right" ->
                    BinaryArithmetic(Top.node.operator, Top.loc[1], ret))
    /\ UNCHANGED <<text, lexer, current_token, peeked, current_scope, tree, call_stack, functions, procedures, out>>

\* the operator applied by visit_NodeUnaryArithmeticOperation
UnaryArithmetic(operator, v) ==
    IF ~IsNumeric(v) THEN Raise(AssertionError)
    ELSE IF operator = "+" THEN Return(Number(v, v, v.n, v.d))
    ELSE IF operator = "-" THEN Return(Number(v, v, -v.n, v.d))
    ELSE Raise(RuntimeError("INVALID_OPERATION"))

visit_NodeUnaryArithmeticOperation ==
    /\ Running("NodeUnaryArithmeticOperation")
    /\ Apply(IF Top.pc = "start" THEN Visit(At(Top, "operand"), Top.node.operand)
             ELSE UnaryArithmetic(Top.node.operator, ret))
    /\ UNCHANGED <<text, lexer, current_token, peeked, current_scope, tree, call_stack, functions, procedures, out>>

\* and / or evaluating both operands before combining them
EagerBooleanStep(f, value) ==
    CASE f.pc = "start" -> Evaluate(At(f, "left"), f.node.left)
      [] f.pc = "left" -> Evaluate([f EXCEPT !.pc = "right", !.loc = <<value>>], f.node.right)
      [] f.pc = "right" ->
            Return(PyBool(IF f.node.logical_operator = "and"
                          THEN IsTrue(f.loc[1]) /\ IsTrue(value)
                          ELSE IsTrue(f.loc[1]) \/ IsTrue(value)))

\* visit_NodeBinaryBooleanOperation
BinaryBooleanStep(f, value) ==
    IF f.node.logical_operator \notin {"and", "or"}
    THEN Raise(RuntimeError("INVALID_OPERATION"))
    ELSE CASE f.pc = "start" -> Evaluate(At(f, "left"), f.node.left)
           [] f.pc = "left" ->
                IF f.node.logical_operator = "and" /\ ~IsTrue(value)
                THEN Return(PyBool(FALSE))
                ELSE IF f.node.logical_operator = "or" /\ IsTrue(value)
                THEN Return(PyBool(TRUE))
                ELSE Evaluate(At(f, "right"), f.node.right)
           [] f.pc = "right" -> Return(value)

visit_NodeBinaryBooleanOperation ==
    /\ Running("NodeBinaryBooleanOperation")
    /\ Apply(BinaryBooleanStep(Top, ret))
    /\ UNCHANGED <<text, lexer, current_token, peeked, current_scope, tree, call_stack, functions, procedures, out>>

visit_NodeUnaryBooleanOperation ==
    /\ Running("NodeUnaryBooleanOperation")
    /\ Apply(IF Top.pc = "start" THEN Evaluate(At(Top, "operand"), Top.node.operand)
             ELSE IF Top.node.logical_operator = "not" THEN Return(PyBool(~IsTrue(ret)))
             ELSE Raise(RuntimeError("INVALID_OPERATION")))
    /\ UNCHANGED <<text, lexer, current_token, peeked, current_scope, tree, call_stack, functions, procedures, out>>

\* the characters of the modelled texts, in code point order
Alphabet ==
    <<" ", "-", ".", "0", "1", "2", "3", "4", "5", "6", "7", "8", "9",
      "F", "N", "T", "a", "b", "c", "e", "l", "n", "o", "r", "s", "u">>

ord(c) == CHOOSE k \in DOMAIN Alphabet : Alphabet[k] = c

\* s < t for two str
RECURSIVE StrLess(_, _)
StrLess(s, t) ==
    IF t = <<>> THEN FALSE
    ELSE IF s = <<>> THEN TRUE
    ELSE IF s[1] # t[1] THEN ord(s[1]) < ord(t[1])
    ELSE StrLess(Tail(s), Tail(t))

\* l == r
PyEqual(l, r) ==
    IF IsNumeric(l) /\ IsNumeric(r) THEN l.n * r.d = r.n * l.d
    ELSE l.t = r.t /\ l.s = r.s

\* l < r, where the host language defines it
PyLess(l, r) ==
    IF IsNumeric(l) THEN l.n * r.d < r.n * l.d ELSE StrLess(l.s, r.s)

\* the comparison applied by visit_NodeComparisonExpression
Comparison(comparator, l, r) ==
    LET ordered == (IsNumeric(l) /\ IsNumeric(r)) \/ (l.t = "str" /\ r.t = "str")
    IN  CASE comparator = "==" -> Return(PyBool(PyEqual(l, r)))
          [] comparator = "!=" -> Return(PyBool(~PyEqual(l, r)))
          [] comparator \in {"<", ">", "<=", ">="} /\ ~ordered -> Raise(TypeError)
          [] comparator = "<" /\ ordered -> Return(PyBool(PyLess(l, r)))
          [] comparator = ">" /\ ordered -> Return(PyBool(PyLess(r, l)))
          [] comparator = "<=" /\ ordered -> Return(PyBool(~PyLess(r, l)))
          [] comparator = ">=" /\ ordered -> Return(PyBool(~PyLess(l, r)))
          [] OTHER -> Raise(RuntimeError("INVALID_OPERATION"))

visit_NodeComparisonExpression ==
    /\ Running("NodeComparisonExpression")
    /\ Apply(CASE Top.pc = "start" -> Visit(At(Top, "left"), Top.node.left)
               [] Top.pc = "left" ->
                    Visit([Top EXCEPT !.pc = "right", !.loc = <<ret>>], Top.node.right)
               [] Top.pc = "right" -> Comparison(Top.node.comparator, Top.loc[1], ret))
    /\ UNCHANGED <<text, lexer, current_token, peeked, current_scope, tree, call_stack, functions, procedures, out>>

\* the truth value visit_NodeArithmeticExpressionAsBoolean gives to value
AsBoolean(value) ==
    IF value.t = "bool" THEN value
    ELSE IF value.t \in {"int", "float"} THEN PyBool(value.n # 0)
    ELSE IF value.t = "str" THEN PyBool(Len(value.s) > 0)
    ELSE PyBool(value.t = "dict")

visit_NodeArithmeticExpressionAsBoolean ==
    /\ Running("NodeArithmeticExpressionAsBoolean")
    /\ Apply(IF Top.pc = "start" THEN Visit(At(Top, "expression"), Top.node.expression)
             ELSE Return(AsBoolean(ret)))
    /\ UNCHANGED <<text, lexer, current_token, peeked, current_scope, tree, call_stack, functions, procedures, out>>

\* what _evaluate_boolean_expression makes of the result of the visit
BooleanResult(result) ==
    IF result.t = "bool" THEN Return(result)
    ELSE Raise(RuntimeError("INVALID_OPERATION"))

_evaluate_boolean_expression ==
    /\ Running("_evaluate_boolean_expression")
    /\ Apply(IF Top.pc = "start" THEN Visit(At(Top, "result"), Top.node)
             ELSE BooleanResult(ret))
    /\ UNCHANGED <<text, lexer, current_token, peeked, current_scope, tree, call_stack, functions, procedures, out>>

(***************************************************************************)
(* Symbol tables (src/_3_semantic_analysis/symbol_table.py).  A scope is   *)
(* the sequence of its tables, outermost first: the last one is the scope  *)
(* itself, the ones before it its chain of enclosing_scope.                *)
(***************************************************************************)
SemanticError(code) == Exception("SemanticError", code)

\* ScopedSymbolTable.BUILT_IN_TYPES
BUILT_IN_TYPES ==
    <<BuiltInTypeSymbol("number"), BuiltInTypeSymbol("string"),
      BuiltInTypeSymbol("boolean")>>

\* ScopedSymbolTable.define on one table
define(table, symbol) ==
    [table EXCEPT !.symbols = SetItem(@, symbol.identifier, symbol)]

\* define, for each symbol of a list in turn
RECURSIVE DefineAll(_, _)
DefineAll(table, symbols) ==
    IF symbols = <<>> THEN table
    ELSE DefineAll(define(table, Head(symbols)), Tail(symbols))

\* ScopedSymbolTable.__init__
ScopedSymbolTable(name, type, level) ==
    DefineAll([name |-> name, type |-> type, level |-> level, symbols |-> EmptyDict],
              IF level = 1 THEN BUILT_IN_TYPES ELSE <<>>)

\* a lookup that goes on to the enclosing scopes whatever it is asked
RECURSIVE LookupThroughChain(_, _, _)
LookupThroughChain(scopes, name, current_scope_only) ==
    IF name \in DOMAIN scopes[Len(scopes)].symbols
    THEN Some(scopes[Len(scopes)].symbols[name])
    ELSE IF Len(scopes) > 1
    THEN LookupThroughChain(SubSeq(scopes, 1, Len(scopes) - 1), name, current_scope_only)
    ELSE <<>>

\* ScopedSymbolTable.lookup: <<symbol>>, or <<>> for None
RECURSIVE lookup(_, _, _)
lookup(scopes, name, current_scope_only) ==
    IF name \in DOMAIN scopes[Len(scopes)].symbols
    THEN Some(scopes[Len(scopes)].symbols[name])
    ELSE IF ~current_scope_only /\ Len(scopes) > 1
    THEN lookup(SubSeq(scopes, 1, Len(scopes) - 1), name, FALSE)
    ELSE <<>>

\* self._current_scope.define(symbol)
DefineInCurrent(scopes, symbol) ==
    [scopes EXCEPT ![Len(scopes)] = define(@, symbol)]

\* entering a scope beside the current scope, not below it
EnterBeside(scopes, name, type, variable_symbols) ==
    Append(scopes,
           DefineAll([name |-> name, type |-> type,
                      level |-> scopes[Len(scopes)].level, symbols |-> EmptyDict],
                     variable_symbols))

\* SemanticAnalyzer._enter_scope
_enter_scope(scopes, name, type, variable_symbols) ==
    Append(scopes,
           DefineAll(ScopedSymbolTable(name, type, scopes[Len(scopes)].level + 1),
                     variable_symbols))

\* leaving a block without restoring the enclosing scope
StayInScope(scopes) == scopes

\* SemanticAnalyzer._exit_scope
_exit_scope(scopes) ==
    IF Len(scopes) > 1 THEN SubSeq(scopes, 1, Len(scopes) - 1) ELSE scopes

\* f"{prefix}_{self._current_scope.level}"
BlockScopeName(prefix, scopes) == prefix \o "_" \o ToString(scopes[Len(scopes)].level)

(***************************************************************************)
(* SemanticAnalyzer (src/_3_semantic_analysis/semantic_analyzer.py), run   *)
(* on the same host stack.  A step of a visit method is the outcome for    *)
(* the host stack together with the scope it leaves.                       *)
(***************************************************************************)
Step(o, scopes) == [do |-> o, scope |-> scopes]

\* SemanticAnalyzer.__init__
GlobalScope == <<ScopedSymbolTable("global", "PROGRAM", 1)>>

\* the innermost pending call is a call of the analyzer's visit method for fn
Analyzing(fn) ==
    /\ phase = "analyzing"
    /\ exc = NoException
    /\ Top.fn = fn

\* the analyzer takes the step
Analyze(step) ==
    /\ Apply(step.do)
    /\ current_scope' = step.scope
    /\ UNCHANGED <<text, lexer, current_token, peeked, tree, call_stack, functions, procedures, out>>

\* for child in children: self.visit(child)
VisitEach(f, children) ==
    IF f.i < Len(children) THEN Visit([f EXCEPT !.i = f.i + 1], children[f.i + 1])
    ELSE Return(None)

analyze ==
    /\ phase = "ready"
    /\ phase' = "analyzing"
    /\ ctl' = <<Frame(tree.kind, tree)>>
    /\ UNCHANGED <<text, lexer, current_token, peeked, current_scope, tree, ret, exc, call_stack, functions, procedures, out>>

SemanticAnalyzer_visit_NodeProgram ==
    /\ Analyzing("NodeProgram")
    /\ Analyze(Step(VisitEach(Top, <<Top.node.block>>), current_scope))

SemanticAnalyzer_visit_NodeBlock ==
    /\ Analyzing("NodeBlock")
    /\ Analyze(Step(VisitEach(Top, OrEmpty(Top.node.statements)), current_scope))

\* one turn of the loop of visit_NodeVariableDeclaration
VariableDeclarationStep(f, scopes) ==
    LET i == f.i + 1
        node == f.node
    IN  IF i > Len(node.identifiers) THEN Step(Return(None), scopes)
        ELSE IF lookup(scopes, node.identifiers[i].name, TRUE) # <<>>
        THEN Step(Raise(SemanticError("SEM_DUPLICATE_IDENTIFIER")), scopes)
        ELSE Step(IF HasInitializer(node, i)
                  THEN Visit([f EXCEPT !.i = i], node.expressions[1][i])
                  ELSE Goto([f EXCEPT !.i = i]),
                  DefineInCurrent(scopes,
                                  VariableSymbol(node.identifiers[i].name, node.type.name)))

SemanticAnalyzer_visit_NodeVariableDeclaration ==
    /\ Analyzing("NodeVariableDeclaration")
    /\ Analyze(VariableDeclarationStep(Top, current_scope))

\* one turn of the loop of visit_NodeConstantDeclaration
ConstantDeclarationStep(f, scopes) ==
    LET i == f.i + 1
        node == f.node
    IN  IF i > Len(node.identifiers) THEN Step(Return(None), scopes)
        ELSE IF lookup(scopes, node.identifiers[i].name, TRUE) # <<>>
        THEN Step(Raise(SemanticError("SEM_DUPLICATE_IDENTIFIER")), scopes)
        ELSE Step(IF i <= Len(node.expressions[1])
                  THEN Visit([f EXCEPT !.i = i], node.expressions[1][i])
                  ELSE Raise(IndexError),
                  DefineInCurrent(scopes,
                                  ConstantSymbol(node.identifiers[i].name, node.type.name)))

SemanticAnalyzer_visit_NodeConstantDeclaration ==
    /\ Analyzing("NodeConstantDeclaration")
    /\ Analyze(ConstantDeclarationStep(Top, current_scope))

\* parameters if parameters else None
OrNone(list) == IF list = <<>> THEN <<>> ELSE Some(list)

\* visit_NodeFunctionDeclaration and visit_NodeProcedureDeclaration, which
\* differ in the symbol they define and the type of the scope they enter
SubroutineDeclarationStep(f, scopes, symbol, type) ==
    IF f.pc = "start"
    THEN IF lookup(scopes, f.node.identifier.name, TRUE) # <<>>
         THEN Step(Raise(SemanticError("SEM_DUPLICATE_IDENTIFIER")), scopes)
         ELSE Step(Visit(At(f, "block"), f.node.block),
                   _enter_scope(DefineInCurrent(scopes, symbol),
                                f.node.identifier.name, type, ParameterSymbols(f.node)))
    ELSE Step(Return(None), _exit_scope(scopes))

SemanticAnalyzer_visit_NodeFunctionDeclaration ==
    /\ Analyzing("NodeFunctionDeclaration")
    /\ Analyze(SubroutineDeclarationStep(
                 Top, current_scope,
                 FunctionSymbol(Top.node.identifier.name,
                                OrNone(ParameterSymbols(Top.node)),
                                Top.node.give_type.name, Top.node.block),
                 "FUNCTION"))

SemanticAnalyzer_visit_NodeProcedureDeclaration ==
    /\ Analyzing("NodeProcedureDeclaration")
    /\ Analyze(SubroutineDeclarationStep(
                 Top, current_scope,
                 ProcedureSymbol(Top.node.identifier.name,
                                 OrNone(ParameterSymbols(Top.node)), Top.node.block),
                 "PROCEDURE"))

\* an assignment that takes any declared name as its target
AssignmentToAnySymbol(f, scopes) ==
    IF f.pc # "start" THEN Return(None)
    ELSE IF lookup(scopes, f.node.identifier.name, FALSE) = <<>>
    THEN Raise(SemanticError("SEM_UNDECLARED_IDENTIFIER"))
    ELSE Visit(At(f, "expression"), f.node.expression)

\* visit_NodeAssignmentStatement
AssignmentStep(f, scopes) ==
    LET symbol == lookup(scopes, f.node.identifier.name, FALSE)
    IN  IF f.pc # "start" THEN Return(None)
        ELSE IF symbol = <<>> THEN Raise(SemanticError("SEM_UNDECLARED_IDENTIFIER"))
        ELSE IF symbol[1].kind = "ConstantSymbol"
        THEN Raise(SemanticError("SEM_ASSIGNMENT_TO_CONSTANT"))
        ELSE IF symbol[1].kind # "VariableSymbol"
        THEN Raise(SemanticError("SEM_WRONG_SYMBOL_TYPE"))
        ELSE Visit(At(f, "expression"), f.node.expression)

SemanticAnalyzer_visit_NodeAssignmentStatement ==
    /\ Analyzing("NodeAssignmentStatement")
    /\ Analyze(Step(AssignmentStep(Top, current_scope), current_scope))

\* a call check that does not count the arguments
CallUncounted(f, scopes, class) ==
    LET symbol == lookup(scopes, f.node.identifier.name, FALSE)
        arguments == OrEmpty(f.node.arguments)
    IN  IF f.pc # "start" THEN VisitEach(f, arguments)
        ELSE IF symbol = <<>> THEN Raise(SemanticError("SEM_UNDECLARED_IDENTIFIER"))
        ELSE IF symbol[1].kind # class THEN Raise(SemanticError("SEM_WRONG_SYMBOL_TYPE"))
        ELSE VisitEach(At(f, "arguments"), arguments)

\* visit_NodeFunctionCall and visit_NodeProcedureCall, which differ in the
\* class of symbol they expect
CallCheckStep(f, scopes, class) ==
    LET symbol == lookup(scopes, f.node.identifier.name, FALSE)
        arguments == OrEmpty(f.node.arguments)
    IN  IF f.pc # "start" THEN VisitEach(f, arguments)
        ELSE IF symbol = <<>> THEN Raise(SemanticError("SEM_UNDECLARED_IDENTIFIER"))
        ELSE IF symbol[1].kind # class THEN Raise(SemanticError("SEM_WRONG_SYMBOL_TYPE"))
        ELSE IF Len(OrEmpty(symbol[1].parameters)) # Len(arguments)
        THEN Raise(SemanticError("SEM_WRONG_NUMBER_OF_ARGUMENTS"))
        ELSE VisitEach(At(f, "arguments"), arguments)

SemanticAnalyzer_visit_NodeFunctionCall ==
    /\ Analyzing("NodeFunctionCall")
    /\ Analyze(Step(CallCheckStep(Top, current_scope, "FunctionSymbol"), current_scope))

SemanticAnalyzer_visit_NodeProcedureCall ==
    /\ Analyzing("NodeProcedureCall")
    /\ Analyze(Step(CallCheckStep(Top, current_scope, "ProcedureSymbol"), current_scope))

\* the outermost scope of type FUNCTION or PROCEDURE on the chain only
OutermostSubroutineScope(scopes) ==
    {k \in DOMAIN scopes :
        /\ scopes[k].type \in {"FUNCTION", "PROCEDURE"}
        /\ \A j \in 1..(k - 1) : scopes[j].type \notin {"FUNCTION", "PROCEDURE"}}

\* the scopes of type FUNCTION or PROCEDURE on the chain, by their index
SubroutineScopes(scopes) ==
    {k \in DOMAIN scopes : scopes[k].type \in {"FUNCTION", "PROCEDURE"}}

\* visit_NodeGiveStatement
GiveCheckStep(f, scopes) ==
    LET ks == SubroutineScopes(scopes)
        k == CHOOSE j \in ks : \A h \in ks : h <= j
        subroutine_symbol == lookup(SubSeq(scopes, 1, k - 1), scopes[k].name, FALSE)
        class == IF subroutine_symbol = <<>> THEN "None" ELSE subroutine_symbol[1].kind
    IN  IF f.pc # "start" THEN Return(None)
        ELSE IF ks = {} THEN Raise(SemanticError("SEM_WRONG_SYMBOL_TYPE"))
        ELSE IF k = 1 THEN Raise(SemanticError("SEM_WRONG_SYMBOL_TYPE"))
        ELSE IF class = "FunctionSymbol"
        THEN IF f.node.expression = NoNode
             THEN Raise(SemanticError("SEM_FUNCTION_EMPTY_GIVE"))
             ELSE Visit(At(f, "expression"), f.node.expression)
        ELSE IF class = "ProcedureSymbol"
        THEN IF f.node.expression # NoNode
             THEN Raise(SemanticError("SEM_PROCEDURE_GIVING_VALUE"))
             ELSE Return(None)
        ELSE Raise(SemanticError("SEM_WRONG_SYMBOL_TYPE"))

SemanticAnalyzer_visit_NodeGiveStatement ==
    /\ Analyzing("NodeGiveStatement")
    /\ Analyze(Step(GiveCheckStep(Top, current_scope), current_scope))

SemanticAnalyzer_visit_NodeShowStatement ==
    /\ Analyzing("NodeShowStatement")
    /\ Analyze(Step(VisitEach(Top, <<Top.node.expression>>), current_scope))

\* a condition, then a block in a scope of its own: visit_NodeElif,
\* visit_NodeWhileStatement and the head of visit_NodeIfStatement; after
\* the block the method goes on with others
GuardedBlockStep(f, scopes, prefix, type, others) ==
    CASE f.pc = "start" -> Step(Visit(At(f, "condition"), f.node.condition), scopes)
      [] f.pc = "condition" ->
            Step(Visit(At(f, "block"), f.node.block),
                 _enter_scope(scopes, BlockScopeName(prefix, scopes), type, <<>>))
      [] f.pc = "block" -> Step(VisitEach(At(f, "others"), others), _exit_scope(scopes))
      [] f.pc = "others" -> Step(VisitEach(f, others), scopes)

SemanticAnalyzer_visit_NodeIfStatement ==
    /\ Analyzing("NodeIfStatement")
    /\ Analyze(GuardedBlockStep(
                 Top, current_scope, "if_statement", "IF_BLOCK",
                 OrEmpty(Top.node.elifs)
                    \o (IF Top.node.else_ # NoNode THEN <<Top.node.else_>> ELSE <<>>)))

SemanticAnalyzer_visit_NodeElif ==
    /\ Analyzing("NodeElif")
    /\ Analyze(GuardedBlockStep(Top, current_scope, "elif_statement", "ELIF_BLOCK", <<>>))

SemanticAnalyzer_visit_NodeElse ==
    /\ Analyzing("NodeElse")
    /\ Analyze(IF Top.pc = "start"
               THEN Step(Visit(At(Top, "block"), Top.node.block),
                         _enter_scope(current_scope,
                                      BlockScopeName("else_statement", current_scope),
                                      "ELSE_BLOCK", <<>>))
               ELSE Step(Return(None), _exit_scope(current_scope)))

SemanticAnalyzer_visit_NodeWhileStatement ==
    /\ Analyzing("NodeWhileStatement")
    /\ Analyze(GuardedBlockStep(Top, current_scope, "while_statement", "WHILE_BLOCK", <<>>))

\* a check of the current scope alone, not of the scopes enclosing it
InnermostScopeOnly(scopes, code) ==
    IF scopes[Len(scopes)].type = "WHILE_BLOCK" THEN Return(None)
    ELSE Raise(SemanticError(code))

\* visit_NodeSkipStatement and visit_NodeStopStatement
LoopControlStep(scopes, code) ==
    IF \E k \in DOMAIN scopes : scopes[k].type = "WHILE_BLOCK" THEN Return(None)
    ELSE Raise(SemanticError(code))

SemanticAnalyzer_visit_NodeSkipStatement ==
    /\ Analyzing("NodeSkipStatement")
    /\ Analyze(Step(LoopControlStep(current_scope, "SEM_SKIP_STATEMENT_OUTSIDE_WHILE"),
                    current_scope))

SemanticAnalyzer_visit_NodeStopStatement ==
    /\ Analyzing("NodeStopStatement")
    /\ Analyze(Step(LoopControlStep(current_scope, "SEM_STOP_STATEMENT_OUTSIDE_WHILE"),
                    current_scope))

SemanticAnalyzer_visit_NodeIdentifier ==
    /\ Analyzing("NodeIdentifier")
    /\ Analyze(Step(IF lookup(current_scope, Top.node.name, FALSE) = <<>>
                    THEN Raise(SemanticError("SEM_UNDECLARED_IDENTIFIER"))
                    ELSE Return(None),
                    current_scope))

SemanticAnalyzer_visit_NodeArithmeticExpressionAsBoolean ==
    /\ Analyzing("NodeArithmeticExpressionAsBoolean")
    /\ Analyze(Step(VisitEach(Top, <<Top.node.expression>>), current_scope))

SemanticAnalyzer_visit_NodeBinaryArithmeticOperation ==
    /\ Analyzing("NodeBinaryArithmeticOperation")
    /\ Analyze(Step(VisitEach(Top, <<Top.node.left, Top.node.right>>), current_scope))

SemanticAnalyzer_visit_NodeUnaryArithmeticOperation ==
    /\ Analyzing("NodeUnaryArithmeticOperation")
    /\ Analyze(Step(VisitEach(Top, <<Top.node.operand>>), current_scope))

SemanticAnalyzer_visit_NodeBinaryBooleanOperation ==
    /\ Analyzing("NodeBinaryBooleanOperation")
    /\ Analyze(Step(VisitEach(Top, <<Top.node.left, Top.node.right>>), current_scope))

SemanticAnalyzer_visit_NodeUnaryBooleanOperation ==
    /\ Analyzing("NodeUnaryBooleanOperation")
    /\ Analyze(Step(VisitEach(Top, <<Top.node.operand>>), current_scope))

SemanticAnalyzer_visit_NodeComparisonExpression ==
    /\ Analyzing("NodeComparisonExpression")
    /\ Analyze(Step(VisitEach(Top, <<Top.node.left, Top.node.right>>), current_scope))

SemanticAnalyzer_visit_NodeNumberLiteral ==
    /\ Analyzing("NodeNumberLiteral")
    /\ Analyze(Step(Return(None), current_scope))

SemanticAnalyzer_visit_NodeStringLiteral ==
    /\ Analyzing("NodeStringLiteral")
    /\ Analyze(Step(Return(None), current_scope))

SemanticAnalyzer_visit_NodeBooleanLiteral ==
    /\ Analyzing("NodeBooleanLiteral")
    /\ Analyze(Step(Return(None), current_scope))

(***************************************************************************)
(* LexicalAnalyzer (src/1_lexical_analysis/lexical_analyzer.py) and the    *)
(* tokens of src/lexical_analysis/tokens.py.  The scanner is the record of *)
(* its four mutable fields; each method is the function from the scanner   *)
(* before the call to the scanner after it.  A TokenType is named by its   *)
(* member name, a token's value is a Python value.                         *)
(***************************************************************************)
LexicalError(code) == Exception("LexicalError", code)

Token(type, value, line, column) ==
    [type |-> type, value |-> value, line |-> line, column |-> column]

\* the value of _current_token and of a peek where there is none
NoToken == Token("", None, 0, 0)

\* current_char is None
NoChar == ""

\* the characters of a source text written as a string
Chars(s) == [i \in 1..Len(s) |-> SubSeq(s, i, i)]

\* the string of a sequence of characters
RECURSIVE Join(_)
Join(cs) == IF cs = <<>> THEN "" ELSE cs[1] \o Join(Tail(cs))

\* the character U+00B2: str.isdigit() holds of it, and int() and float() do
\* not take it
SUPERSCRIPT_TWO == "SUPERSCRIPT TWO"

\* str.isdecimal
isdecimal(c) == c \in {"0", "1", "2", "3", "4", "5", "6", "7", "8", "9"}

\* str.isdigit
isdigit(c) == isdecimal(c) \/ c = SUPERSCRIPT_TWO

\* int(number) and float(number) raise ValueError
NoNumber(number) == \E i \in DOMAIN number : number[i] # "." /\ ~isdecimal(number[i])

isalpha(c) ==
    c \in {"a", "b", "c", "d", "e", "f", "g", "h", "i", "j", "k", "l", "m",
           "n", "o", "p", "q", "r", "s", "t", "u", "v", "w", "x", "y", "z",
           "A", "B", "C", "D", "E", "F", "G", "H", "I", "J", "K", "L", "M",
           "N", "O", "P", "Q", "R", "S", "T", "U", "V", "W", "X", "Y", "Z"}

isalnum(c) == isalpha(c) \/ isdigit(c)

isspace(c) == c \in {" ", "\t", "\n", "\r", "\f"}

RESERVED_KEYWORDS ==
    [let |-> "LET", keep |-> "KEEP", give |-> "GIVE", func |-> "FUNC",
     proc |-> "PROC", exec |-> "EXEC", int |-> "INT_TYPE", float |-> "FLOAT_TYPE",
     string |-> "STRING_TYPE", bool |-> "BOOL_TYPE", and |-> "AND", or |-> "OR",
     not |-> "NOT", if |-> "IF", elif |-> "ELIF", else |-> "ELSE",
     while |-> "WHILE", skip |-> "SKIP", stop |-> "STOP", show |-> "SHOW",
     true |-> "BOOL_LITERAL", false |-> "BOOL_LITERAL"]

SINGLE_CHARACTER_TOKEN_TYPES ==
    ("{" :> "LEFT_BRACE") @@ ("}" :> "RIGHT_BRACE") @@ ("(" :> "LEFT_PARENTHESIS")
    @@ (")" :> "RIGHT_PARENTHESIS") @@ ("," :> "COMMA") @@ (":" :> "COLON")
    @@ ("=" :> "ASSIGN") @@ ("+" :> "PLUS") @@ ("-" :> "MINUS")
    @@ ("*" :> "MULTIPLY") @@ ("/" :> "DIVIDE") @@ ("%" :> "MODULO")
    @@ ("<" :> "LESS") @@ (">" :> "GREATER")

MULTI_CHAR_OPERATORS ==
    (<<"-", ">">> :> "ARROW") @@ (<<"*", "*">> :> "POWER")
    @@ (<<"/", "/">> :> "FLOOR_DIVIDE") @@ (<<"=", "=">> :> "EQUAL")
    @@ (<<"!", "=">> :> "NOT_EQUAL") @@ (<<"<", "=">> :> "LESS_EQUAL")
    @@ (<<">", "=">> :> "GREATER_EQUAL")

\* self.text[index] if index < len(self.text) else None
CharAt(index) == IF index < Len(text) THEN text[index + 1] ELSE NoChar

\* LexicalAnalyzer.__init__ on the text
LexicalAnalyzer ==
    [position |-> 0, current_char |-> CharAt(0), line |-> 1, column |-> 1]

_advance(L) ==
    [position |-> L.position + 1,
     current_char |-> CharAt(L.position + 1),
     line |-> IF L.current_char = "\n" THEN L.line + 1 ELSE L.line,
     column |-> IF L.current_char = "\n" THEN 1 ELSE L.column + 1]

_peek(L, offset) == CharAt(L.position + offset)

RECURSIVE _skip_whitespace(_)
_skip_whitespace(L) ==
    IF L.current_char # NoChar /\ isspace(L.current_char) /\ L.current_char # "\n"
    THEN _skip_whitespace(_advance(L))
    ELSE L

\* the loop of _skip_comment
RECURSIVE ToEndOfLine(_)
ToEndOfLine(L) ==
    IF L.current_char # NoChar /\ L.current_char # "\n" THEN ToEndOfLine(_advance(L))
    ELSE L

_skip_comment(L) == ToEndOfLine(_advance(L))

RECURSIVE _skip_consecutive_newlines(_)
_skip_consecutive_newlines(L) ==
    IF L.current_char = "\n" THEN _skip_consecutive_newlines(_advance(L)) ELSE L

\* what a call of the scanner comes to: it returns token, or raises error,
\* and leaves the scanner as L
Scanned(token, L) == [token |-> token, lexer |-> L, error |-> NoException]

ScanError(error, L) == [token |-> NoToken, lexer |-> L, error |-> error]

\* the loop of _tokenize_number
RECURSIVE NumberLoop(_, _, _)
NumberLoop(L, number, has_dot) ==
    IF L.current_char # NoChar /\ (isdigit(L.current_char) \/ L.current_char = ".")
    THEN IF L.current_char = "." /\ (has_dot \/ ~isdigit(_peek(L, 1)))
         THEN [lexer |-> L, number |-> number, has_dot |-> has_dot]
         ELSE NumberLoop(_advance(L), Append(number, L.current_char),
                         has_dot \/ L.current_char = ".")
    ELSE [lexer |-> L, number |-> number, has_dot |-> has_dot]

_tokenize_number(L) ==
    LET end == NumberLoop(L, <<>>, FALSE)
    IN  IF end.number = <<>> \/ end.number = <<".">>
        THEN ScanError(LexicalError("INVALID_NUMBER_FORMAT"), end.lexer)
        ELSE IF NoNumber(end.number) THEN ScanError(ValueError, end.lexer)
        ELSE Scanned(Token(IF end.has_dot THEN "FLOAT_LITERAL" ELSE "INT_LITERAL",
                           NumberOfLexeme(end.number),
                           L.line, L.column),
                     end.lexer)

\* escape_map.get(c, c)
Escape(c) ==
    CASE c = "n" -> "\n"
      [] c = "t" -> "\t"
      [] c = "r" -> "\r"
      [] OTHER -> c

\* the loop of _tokenize_string and what follows it
RECURSIVE StringLoop(_, _, _, _)
StringLoop(L, quote, value, start) ==
    IF L.current_char # NoChar /\ L.current_char # quote
    THEN IF L.current_char = "\n"
         THEN ScanError(LexicalError("UNTERMINATED_STRING"), L)
         ELSE IF L.current_char = "\\"
         THEN IF _advance(L).current_char = NoChar
              THEN ScanError(LexicalError("UNTERMINATED_STRING"), _advance(L))
              ELSE StringLoop(_advance(_advance(L)), quote,
                              Append(value, Escape(_advance(L).current_char)), start)
         ELSE StringLoop(_advance(L), quote, Append(value, L.current_char), start)
    ELSE IF L.current_char # quote
    THEN ScanError(LexicalError("UNTERMINATED_STRING"), L)
    ELSE Scanned(Token("STRING_LITERAL", PyStr(value), start.line, start.column),
                 _advance(L))

_tokenize_string(L) == StringLoop(_advance(L), L.current_char, <<>>, L)

\* the loop of _tokenize_identifier
RECURSIVE IdentifierLoop(_, _)
IdentifierLoop(L, identifier) ==
    IF L.current_char # NoChar /\ (isalnum(L.current_char) \/ L.current_char = "_")
    THEN IdentifierLoop(_advance(L), Append(identifier, L.current_char))
    ELSE [lexer |-> L, identifier |-> identifier]

_tokenize_identifier(L) ==
    LET end == IdentifierLoop(L, <<>>)
        identifier == Join(end.identifier)
    IN  Scanned(IF identifier = "true"
                THEN Token("BOOL_LITERAL", PyBool(TRUE), L.line, L.column)
                ELSE IF identifier = "false"
                THEN Token("BOOL_LITERAL", PyBool(FALSE), L.line, L.column)
                ELSE IF identifier \in DOMAIN RESERVED_KEYWORDS
                THEN Token(RESERVED_KEYWORDS[identifier], PyStr(end.identifier),
                           L.line, L.column)
                ELSE Token("IDENTIFIER", PyStr(end.identifier), L.line, L.column),
                end.lexer)

_matches_operator(L, operator) ==
    \A i \in DOMAIN operator : _peek(L, i - 1) = operator[i]

\* _tokenize_multi_character_operator: the operators that match, none or one
MatchingOperators(L) ==
    {operator \in DOMAIN MULTI_CHAR_OPERATORS : _matches_operator(L, operator)}

_tokenize_multi_character_operator(L) ==
    LET operator == CHOOSE o \in MatchingOperators(L) : TRUE
    IN  Scanned(Token(MULTI_CHAR_OPERATORS[operator], PyStr(operator), L.line, L.column),
                _advance(_advance(L)))

RECURSIVE next_token(_)
next_token(L0) ==
    LET L == _skip_whitespace(L0)
        c == L.current_char
    IN  IF c = "#" THEN next_token(_skip_comment(L))
        ELSE IF c = NoChar THEN Scanned(Token("EOF", None, L.line, L.column), L)
        ELSE IF c = "\n"
        THEN Scanned(Token("NEWLINE", PyStr(<<"\n">>), L.line, L.column),
                     _skip_consecutive_newlines(_advance(L)))
        ELSE IF isdigit(c) \/ (c = "." /\ isdigit(_peek(L, 1))) THEN _tokenize_number(L)
        ELSE IF c \in {"'", "\""} THEN _tokenize_string(L)
        ELSE IF isalpha(c) \/ c = "_" THEN _tokenize_identifier(L)
        ELSE IF MatchingOperators(L) # {} THEN _tokenize_multi_character_operator(L)
        ELSE IF c \in DOMAIN SINGLE_CHARACTER_TOKEN_TYPES
        THEN Scanned(Token(SINGLE_CHARACTER_TOKEN_TYPES[c], PyStr(<<c>>), L.line, L.column),
                     _advance(L))
        ELSE ScanError(LexicalError("INVALID_CHARACTER"), L)

\* LexicalAnalyzer.tokenize from scanner L: the tokens up to and with EOF,
\* or the tokens before the one that raises
RECURSIVE tokenize(_)
tokenize(L) ==
    LET scan == next_token(L)
    IN  IF scan.error # NoException THEN <<>>
        ELSE IF scan.token.type = "EOF" THEN <<scan.token>>
        ELSE <<scan.token>> \o tokenize(scan.lexer)

(***************************************************************************)
(* SyntacticAnalyzer (src/2_syntactic_analysis/syntactic_analyser.py), run *)
(* on the host stack: a frame is a pending call of a parsing method, loc   *)
(* the locals it has bound so far.  A step of a method runs up to the next *)
(* call of another parsing method; the _consume calls on its way are part  *)
(* of the step.                                                            *)
(***************************************************************************)
SyntacticError(code) == Exception("SyntacticError", code)

\* the parser inside a step: its scanner, its current token and the
\* exception the step has raised so far
Parser(L, token) == [lexer |-> L, token |-> token, error |-> NoException]

\* SyntacticAnalyzer._consume by parser p (nothing once p has raised)
_consume(p, expected_type) ==
    IF p.error # NoException THEN p
    ELSE IF p.token.type # expected_type
    THEN [p EXCEPT !.error = SyntacticError("UNEXPECTED_TOKEN")]
    ELSE LET scan == next_token(p.lexer)
         IN  [lexer |-> scan.lexer,
              token |-> IF scan.error = NoException THEN scan.token ELSE p.token,
              error |-> scan.error]

\* the step ends with outcome o and leaves the parser as p, or raises what
\* p has raised
Then(p, o) ==
    [do |-> IF p.error # NoException THEN Raise(p.error) ELSE o,
     lexer |-> p.lexer, token |-> p.token]

\* self._method(), the calling frame going on as frame f when it returns
Invoke(f, fn) == [kind |-> "visit", frame |-> f, fn |-> fn, node |-> NoNode]

\* the frame goes on at pc with locals loc
Local(f, pc, loc) == [f EXCEPT !.pc = pc, !.loc = loc]

\* the innermost pending call is a call of the parsing method fn
Parsing(fn) ==
    /\ phase = "parsing"
    /\ exc = NoException
    /\ Top.fn = fn

\* the parser before the step
Here == Parser(lexer, current_token)

\* the parser takes the step
Parse(step) ==
    /\ Apply(step.do)
    /\ lexer' = step.lexer
    /\ current_token' = step.token
    /\ peeked' = NoToken
    /\ UNCHANGED <<text, tree, call_stack, functions, procedures, out, current_scope>>

\* return self._method()
Delegate(f, fn) == IF f.pc = "start" THEN Invoke(At(f, "called"), fn) ELSE Return(ret)

\* SyntacticAnalyzer.__init__
SyntacticAnalyzer ==
    /\ phase = "ready"
    /\ LET scan == next_token(lexer)
       IN  /\ lexer' = scan.lexer
           /\ current_token' = scan.token
           /\ exc' = scan.error
           /\ phase' = IF scan.error = NoException THEN "constructed" ELSE "failed"
    /\ UNCHANGED <<text, tree, ctl, ret, peeked, call_stack, functions, procedures, out,
                   current_scope>>

\* a parse that returns the program whatever follows it
ParseAnyRest(f, p) ==
    Then(p, IF f.pc = "start" THEN Invoke(At(f, "program"), "_program") ELSE Return(ret))

\* parse: the program, then the check that the current token is EOF
ParseStep(f, p) ==
    Then(p, IF f.pc = "start" THEN Invoke(At(f, "program"), "_program")
            ELSE IF p.token.type # "EOF" THEN Raise(SyntacticError("UNEXPECTED_TOKEN"))
            ELSE Return(ret))

parse ==
    IF phase = "constructed"
    THEN /\ phase' = "parsing"
         /\ ctl' = <<Frame("parse", NoNode)>>
         /\ UNCHANGED <<text, lexer, current_token, peeked, current_scope, tree, ret, exc,
                        call_stack, functions, procedures, out>>
    ELSE /\ Parsing("parse")
         /\ Parse(ParseStep(Top, Here))

\* a peek that leaves the scanner where next_token has taken it
LookAheadUnrestored(L) == next_token(L)

\* _peek_next_token with the scanner as L: the four fields are saved, the
\* next token is scanned, and the fields are put back
LookAhead(L) ==
    LET lookahead_position == L.position
        lookahead_character == L.current_char
        lookahead_line == L.line
        lookahead_column == L.column
        scan == next_token(L)
    IN  IF scan.error # NoException THEN scan
        ELSE Scanned(scan.token,
                     [position |-> lookahead_position,
                      current_char |-> lookahead_character,
                      line |-> lookahead_line,
                      column |-> lookahead_column])

\* a call of _peek_next_token between two steps of the parser
_peek_next_token ==
    /\ phase = "parsing"
    /\ exc = NoException
    /\ peeked = NoToken
    /\ LET scan == LookAhead(lexer)
       IN  /\ lexer' = scan.lexer
           /\ exc' = scan.error
           /\ peeked' = scan.token
    /\ UNCHANGED <<text, current_token, current_scope, tree, phase, ctl, ret,
                   call_stack, functions, procedures, out>>

_program ==
    /\ Parsing("_program")
    /\ Parse(Then(Here, IF Top.pc = "start" THEN Invoke(At(Top, "block"), "_block")
                        ELSE Return(NodeProgram(ret))))

\* _block; loc is the list statements
BlockStep(f, p) ==
    LET opened == _consume(p, "LEFT_BRACE")
        loop(q, statements) ==
            IF q.token.type = "RIGHT_BRACE"
            THEN Then(_consume(q, "RIGHT_BRACE"), Return(NodeBlock(OrNone(statements))))
            ELSE IF q.token.type = "NEWLINE"
            THEN Then(_consume(q, "NEWLINE"), Goto(Local(f, "loop", statements)))
            ELSE Then(q, Invoke(Local(f, "statement", statements), "_statement"))
    IN  CASE f.pc = "start" ->
                Then(IF opened.token.type = "NEWLINE" THEN _consume(opened, "NEWLINE")
                     ELSE opened,
                     Goto(Local(f, "loop", <<>>)))
          [] f.pc = "loop" -> loop(p, f.loc)
          [] f.pc = "statement" ->
                IF p.token.type = "NEWLINE"
                THEN Then(_consume(p, "NEWLINE"), Goto(Local(f, "loop", Append(f.loc, ret))))
                ELSE IF p.token.type # "RIGHT_BRACE"
                THEN Then(p, Raise(SyntacticError("UNEXPECTED_TOKEN")))
                ELSE Then(p, Goto(Local(f, "loop", Append(f.loc, ret))))

_block ==
    /\ Parsing("_block")
    /\ Parse(BlockStep(Top, Here))

\* the method _statement hands a statement to, by the type of its first
\* token
StatementMethod ==
    "LET" :> "_variable_declaration" @@ "KEEP" :> "_constant_declaration"
    @@ "FUNC" :> "_function_declaration" @@ "PROC" :> "_procedure_declaration"
    @@ "EXEC" :> "_procedure_call" @@ "IDENTIFIER" :> "_assignment_statement"
    @@ "GIVE" :> "_give_statement" @@ "SHOW" :> "_show_statement"
    @@ "IF" :> "_if_statement" @@ "WHILE" :> "_while_statement"
    @@ "SKIP" :> "_skip_statement" @@ "STOP" :> "_stop_statement"

StatementStep(f, p) ==
    IF f.pc # "start" THEN Then(p, Return(ret))
    ELSE IF p.token.type \in DOMAIN StatementMethod
    THEN Then(p, Invoke(At(f, "statement"), StatementMethod[p.token.type]))
    ELSE Then(p, Raise(SyntacticError("UNEXPECTED_TOKEN")))

_statement ==
    /\ Parsing("_statement")
    /\ Parse(StatementStep(Top, Here))

\* _variable_declaration (keyword LET, initializers optional) and
\* _constant_declaration (keyword KEEP, initializers required); loc is
\* <<type, identifiers>>
DeclarationStep(f, p, keyword) ==
    LET Node(type, identifiers, expressions) ==
            IF keyword = "LET"
            THEN NodeVariableDeclaration(type, identifiers, expressions)
            ELSE NodeConstantDeclaration(type, identifiers, OrEmpty(expressions))
    IN  CASE f.pc = "start" -> Then(_consume(p, keyword), Invoke(At(f, "type"), "_type"))
          [] f.pc = "type" ->
                Then(p, Invoke(Local(f, "identifiers", <<ret>>), "_identifier_list"))
          [] f.pc = "identifiers" ->
                IF keyword = "KEEP" \/ p.token.type = "ASSIGN"
                THEN Then(_consume(p, "ASSIGN"),
                          Invoke(Local(f, "expressions", <<f.loc[1], ret>>),
                               "_expression_list"))
                ELSE Then(p, Return(Node(f.loc[1], ret, <<>>)))
          [] f.pc = "expressions" ->
                IF Len(f.loc[2]) # Len(ret)
                THEN Then(p, Raise(SyntacticError("WRONG_NUMBER_OF_EXPRESSIONS")))
                ELSE Then(p, Return(Node(f.loc[1], f.loc[2], Some(ret))))

_variable_declaration ==
    /\ Parsing("_variable_declaration")
    /\ Parse(DeclarationStep(Top, Here, "LET"))

_constant_declaration ==
    /\ Parsing("_constant_declaration")
    /\ Parse(DeclarationStep(Top, Here, "KEEP"))

\* _identifier_list, _expression_list, _parameter_list and _argument_list:
\* one or more items, each parsed by the method item, with commas between
\* them; loc is the list so far
ListStep(f, p, item) ==
    IF f.pc = "start" THEN Then(p, Invoke(Local(f, "item", <<>>), item))
    ELSE IF p.token.type = "COMMA"
    THEN Then(_consume(p, "COMMA"), Invoke(Local(f, "item", Append(f.loc, ret)), item))
    ELSE Then(p, Return(Append(f.loc, ret)))

_identifier_list ==
    /\ Parsing("_identifier_list")
    /\ Parse(ListStep(Top, Here, "_identifier"))

_expression_list ==
    /\ Parsing("_expression_list")
    /\ Parse(ListStep(Top, Here, "_expression"))

_parameter_list ==
    /\ Parsing("_parameter_list")
    /\ Parse(ListStep(Top, Here, "_parameter"))

_argument_list ==
    /\ Parsing("_argument_list")
    /\ Parse(ListStep(Top, Here, "_expression"))

\* _function_declaration (keyword FUNC, with a give type) and
\* _procedure_declaration (keyword PROC, without); loc is
\* <<name, parameters, give_type>>
SubroutineStep(f, p, keyword) ==
    LET opened == _consume(p, "LEFT_PARENTHESIS")
        after == IF keyword = "FUNC" THEN "_give_type" ELSE "_block"
        pc == IF keyword = "FUNC" THEN "give_type" ELSE "block"
    IN  CASE f.pc = "start" -> Then(_consume(p, keyword), Invoke(At(f, "name"), "_identifier"))
          [] f.pc = "name" ->
                IF opened.token.type # "RIGHT_PARENTHESIS"
                THEN Then(opened, Invoke(Local(f, "parameters", <<ret>>), "_parameter_list"))
                ELSE Then(_consume(opened, "RIGHT_PARENTHESIS"),
                          Invoke(Local(f, pc, <<ret, <<>>, NoNode>>), after))
          [] f.pc = "parameters" ->
                Then(_consume(p, "RIGHT_PARENTHESIS"),
                     Invoke(Local(f, pc, <<f.loc[1], Some(ret), NoNode>>), after))
          [] f.pc = "give_type" ->
                Then(p, Invoke(Local(f, "block", <<f.loc[1], f.loc[2], ret>>), "_block"))
          [] f.pc = "block" ->
                Then(p, Return(IF keyword = "FUNC"
                               THEN NodeFunctionDeclaration(f.loc[1], f.loc[2], f.loc[3], ret)
                               ELSE NodeProcedureDeclaration(f.loc[1], f.loc[2], ret)))

_function_declaration ==
    /\ Parsing("_function_declaration")
    /\ Parse(SubroutineStep(Top, Here, "FUNC"))

_procedure_declaration ==
    /\ Parsing("_procedure_declaration")
    /\ Parse(SubroutineStep(Top, Here, "PROC"))

_parameter ==
    /\ Parsing("_parameter")
    /\ Parse(Then(Here,
                  CASE Top.pc = "start" -> Invoke(At(Top, "type"), "_type")
                    [] Top.pc = "type" -> Invoke(Local(Top, "identifier", <<ret>>), "_identifier")
                    [] Top.pc = "identifier" -> Return(NodeParameter(ret, Top.loc[1]))))

_give_type ==
    /\ Parsing("_give_type")
    /\ Parse(IF Top.pc = "start"
             THEN Then(_consume(Here, "ARROW"), Invoke(At(Top, "type"), "_type"))
             ELSE Then(Here, Return(ret)))

\* _function_call and _procedure_call (which first consumes EXEC); loc is
\* <<name>>
CallParseStep(f, p, exec) ==
    LET opened == _consume(p, "LEFT_PARENTHESIS")
        Node(name, arguments) ==
            IF exec THEN NodeProcedureCall(name, arguments)
            ELSE NodeFunctionCall(name, arguments)
    IN  CASE f.pc = "start" ->
                Then(IF exec THEN _consume(p, "EXEC") ELSE p,
                     Invoke(At(f, "name"), "_identifier"))
          [] f.pc = "name" ->
                IF opened.token.type # "RIGHT_PARENTHESIS"
                THEN Then(opened, Invoke(Local(f, "arguments", <<ret>>), "_argument_list"))
                ELSE Then(_consume(opened, "RIGHT_PARENTHESIS"), Return(Node(ret, <<>>)))
          [] f.pc = "arguments" ->
                Then(_consume(p, "RIGHT_PARENTHESIS"), Return(Node(f.loc[1], Some(ret))))

_function_call ==
    /\ Parsing("_function_call")
    /\ Parse(CallParseStep(Top, Here, FALSE))

_procedure_call ==
    /\ Parsing("_procedure_call")
    /\ Parse(CallParseStep(Top, Here, TRUE))

_assignment_statement ==
    /\ Parsing("_assignment_statement")
    /\ Parse(CASE Top.pc = "start" -> Then(Here, Invoke(At(Top, "identifier"), "_identifier"))
               [] Top.pc = "identifier" ->
                    Then(_consume(Here, "ASSIGN"),
                         Invoke(Local(Top, "expression", <<ret>>), "_expression"))
               [] Top.pc = "expression" ->
                    Then(Here, Return(NodeAssignmentStatement(Top.loc[1], ret))))

GiveParseStep(f, p) ==
    LET given == _consume(p, "GIVE")
    IN  IF f.pc # "start" THEN Then(p, Return(NodeGiveStatement(ret)))
        ELSE IF given.token.type \in {"NEWLINE", "RIGHT_BRACE"}
        THEN Then(given, Return(NodeGiveStatement(NoNode)))
        ELSE Then(given, Invoke(At(f, "expression"), "_expression"))

_give_statement ==
    /\ Parsing("_give_statement")
    /\ Parse(GiveParseStep(Top, Here))

_show_statement ==
    /\ Parsing("_show_statement")
    /\ Parse(IF Top.pc = "start"
             THEN Then(_consume(Here, "SHOW"), Invoke(At(Top, "expression"), "_expression"))
             ELSE Then(Here, Return(NodeShowStatement(ret))))

\* _if_statement; loc is <<condition, block, elifs>>
IfParseStep(f, p) ==
    CASE f.pc = "start" ->
            Then(_consume(p, "IF"), Invoke(At(f, "condition"), "_boolean_expression"))
      [] f.pc = "condition" -> Then(p, Invoke(Local(f, "block", <<ret>>), "_block"))
      [] f.pc = "block" ->
            IF p.token.type = "ELIF"
            THEN Then(p, Invoke(Local(f, "elifs", <<f.loc[1], ret>>), "_elifs"))
            ELSE IF p.token.type = "ELSE"
            THEN Then(p, Invoke(Local(f, "else", <<f.loc[1], ret, <<>>>>), "_else"))
            ELSE Then(p, Return(NodeIfStatement(f.loc[1], ret, <<>>, NoNode)))
      [] f.pc = "elifs" ->
            IF p.token.type = "ELSE"
            THEN Then(p, Invoke(Local(f, "else", <<f.loc[1], f.loc[2], Some(ret)>>), "_else"))
            ELSE Then(p, Return(NodeIfStatement(f.loc[1], f.loc[2], Some(ret), NoNode)))
      [] f.pc = "else" ->
            Then(p, Return(NodeIfStatement(f.loc[1], f.loc[2], f.loc[3], ret)))

_if_statement ==
    /\ Parsing("_if_statement")
    /\ Parse(IfParseStep(Top, Here))

\* _elifs; loc is the list elifs
ElifsStep(f, p) ==
    LET elifs == IF f.pc = "start" THEN <<>> ELSE Append(f.loc, ret)
    IN  IF p.token.type = "ELIF" THEN Then(p, Invoke(Local(f, "elif", elifs), "_elif"))
        ELSE Then(p, Return(elifs))

_elifs ==
    /\ Parsing("_elifs")
    /\ Parse(ElifsStep(Top, Here))

\* _elif and _while_statement: a keyword, a condition and a block
ConditionBlockStep(f, p, keyword) ==
    CASE f.pc = "start" ->
            Then(_consume(p, keyword), Invoke(At(f, "condition"), "_boolean_expression"))
      [] f.pc = "condition" -> Then(p, Invoke(Local(f, "block", <<ret>>), "_block"))
      [] f.pc = "block" ->
            Then(p, Return(IF keyword = "ELIF" THEN NodeElif(f.loc[1], ret)
                           ELSE NodeWhileStatement(f.loc[1], ret)))

_elif ==
    /\ Parsing("_elif")
    /\ Parse(ConditionBlockStep(Top, Here, "ELIF"))

_else ==
    /\ Parsing("_else")
    /\ Parse(IF Top.pc = "start"
             THEN Then(_consume(Here, "ELSE"), Invoke(At(Top, "block"), "_block"))
             ELSE Then(Here, Return(NodeElse(ret))))

_while_statement ==
    /\ Parsing("_while_statement")
    /\ Parse(ConditionBlockStep(Top, Here, "WHILE"))

_skip_statement ==
    /\ Parsing("_skip_statement")
    /\ Parse(Then(_consume(Here, "SKIP"), Return(NodeSkipStatement)))

_stop_statement ==
    /\ Parsing("_stop_statement")
    /\ Parse(Then(_consume(Here, "STOP"), Return(NodeStopStatement)))

_type ==
    /\ Parsing("_type")
    /\ Parse(IF current_token.type \in {"INT_TYPE", "FLOAT_TYPE", "STRING_TYPE", "BOOL_TYPE"}
             THEN Then(_consume(Here, current_token.type), Return(NodeType(current_token)))
             ELSE Then(Here, Raise(SyntacticError("UNEXPECTED_TOKEN"))))

_identifier ==
    /\ Parsing("_identifier")
    /\ Parse(Then(_consume(Here, "IDENTIFIER"), Return(NodeIdentifier(current_token.value))))

_expression ==
    /\ Parsing("_expression")
    /\ Parse(Then(Here, Delegate(Top, "_boolean_expression")))

_boolean_expression ==
    /\ Parsing("_boolean_expression")
    /\ Parse(Then(Here, Delegate(Top, "_logical_or_expression")))

\* a binary operation that groups to the right: every operator takes all
\* that follows it as its right operand
RightAssociative(f, p, operators, operand) ==
    CASE f.pc = "start" -> Then(p, Invoke(At(f, "left"), operand))
      [] f.pc = "left" ->
            IF p.token.type \in operators
            THEN Then(_consume(p, p.token.type),
                      Invoke(Local(f, "right", <<ret, p.token>>), f.fn))
            ELSE Then(p, Return(ret))
      [] f.pc = "right" ->
            Then(p, Return(NodeBinaryArithmeticOperation(f.loc[1], f.loc[2].value, ret)))

\* _logical_or_expression, _logical_and_expression, _additive_expression
\* and _multiplicative_expression: operands parsed by the method operand,
\* with operators of the types operators between them, folded into Node
\* from the left; loc is <<left, operator>>
LeftAssociative(f, p, operators, operand) ==
    LET Node(left_, operator, right) ==
            IF operators \subseteq {"OR", "AND"}
            THEN NodeBinaryBooleanOperation(left_, operator, right)
            ELSE NodeBinaryArithmeticOperation(left_, operator, right)
        left == IF f.pc = "left" THEN ret ELSE Node(f.loc[1], f.loc[2].value, ret)
    IN  IF f.pc = "start" THEN Then(p, Invoke(At(f, "left"), operand))
        ELSE IF p.token.type \in operators
        THEN Then(_consume(p, p.token.type),
                  Invoke(Local(f, "right", <<left, p.token>>), operand))
        ELSE Then(p, Return(left))

_logical_or_expression ==
    /\ Parsing("_logical_or_expression")
    /\ Parse(LeftAssociative(Top, Here, {"OR"}, "_logical_and_expression"))

_logical_and_expression ==
    /\ Parsing("_logical_and_expression")
    /\ Parse(LeftAssociative(Top, Here, {"AND"}, "_logical_not_expression"))

\* _logical_not_expression and _unary_expression: the operators of the
\* types operators before an operand parsed by the method operand, or else
\* what the method primary parses; loc is <<operator>>
PrefixStep(f, p, operators, operand, primary) ==
    CASE f.pc = "start" ->
            IF p.token.type \in operators
            THEN Then(_consume(p, p.token.type),
                      Invoke(Local(f, "operand", <<p.token>>), operand))
            ELSE Then(p, Invoke(At(f, "primary"), primary))
      [] f.pc = "operand" ->
            Then(p, Return(IF operators = {"NOT"}
                           THEN NodeUnaryBooleanOperation(f.loc[1].value, ret)
                           ELSE NodeUnaryArithmeticOperation(f.loc[1].value, ret)))
      [] f.pc = "primary" -> Then(p, Return(ret))

_logical_not_expression ==
    /\ Parsing("_logical_not_expression")
    /\ Parse(PrefixStep(Top, Here, {"NOT"}, "_primary_boolean_expression",
                        "_primary_boolean_expression"))

PrimaryBooleanStep(f, p) ==
    CASE f.pc = "start" ->
            IF p.token.type = "BOOL_LITERAL"
            THEN Then(_consume(p, "BOOL_LITERAL"), Return(NodeBooleanLiteral(p.token.value)))
            ELSE IF p.token.type = "LEFT_PARENTHESIS"
            THEN Then(_consume(p, "LEFT_PARENTHESIS"),
                      Invoke(At(f, "parenthesis"), "_boolean_expression"))
            ELSE Then(p, Invoke(At(f, "comparison"), "_comparison_expression"))
      [] f.pc = "parenthesis" -> Then(_consume(p, "RIGHT_PARENTHESIS"), Return(ret))
      [] f.pc = "comparison" -> Then(p, Return(ret))

_primary_boolean_expression ==
    /\ Parsing("_primary_boolean_expression")
    /\ Parse(PrimaryBooleanStep(Top, Here))

\* NodeComparison of the parser's AST
NodeComparison(left, operator, right) ==
    [kind |-> "NodeComparison", left |-> left, operator |-> operator, right |-> right]

comparison_operators ==
    {"EQUAL", "NOT_EQUAL", "LESS", "GREATER", "LESS_EQUAL", "GREATER_EQUAL"}

\* _comparison_expression; loc is <<left, operator>>
ComparisonStep(f, p) ==
    CASE f.pc = "start" -> Then(p, Invoke(At(f, "left"), "_arithmetic_expression"))
      [] f.pc = "left" ->
            IF p.token.type \in comparison_operators
            THEN Then(_consume(p, p.token.type),
                      Invoke(Local(f, "right", <<ret, p.token>>), "_arithmetic_expression"))
            ELSE Then(p, Return(NodeArithmeticExpressionAsBoolean(ret)))
      [] f.pc = "right" -> Then(p, Return(NodeComparison(f.loc[1], f.loc[2].value, ret)))

_comparison_expression ==
    /\ Parsing("_comparison_expression")
    /\ Parse(ComparisonStep(Top, Here))

_arithmetic_expression ==
    /\ Parsing("_arithmetic_expression")
    /\ Parse(Then(Here, Delegate(Top, "_additive_expression")))

_additive_expression ==
    /\ Parsing("_additive_expression")
    /\ Parse(LeftAssociative(Top, Here, {"PLUS", "MINUS"}, "_multiplicative_expression"))

_multiplicative_expression ==
    /\ Parsing("_multiplicative_expression")
    /\ Parse(LeftAssociative(Top, Here, {"MULTIPLY", "DIVIDE", "FLOOR_DIVIDE", "MODULO"},
                             "_power_expression"))

\* a power that groups to the left, as the additive operators do
PowerLeftAssociative(f, p) ==
    LeftAssociative(f, p, {"POWER"}, "_unary_expression")

\* _power_expression: the right operand of ** is a power expression itself
PowerStep(f, p) ==
    RightAssociative(f, p, {"POWER"}, "_unary_expression")

_power_expression ==
    /\ Parsing("_power_expression")
    /\ Parse(PowerStep(Top, Here))

_unary_expression ==
    /\ Parsing("_unary_expression")
    /\ Parse(PrefixStep(Top, Here, {"PLUS", "MINUS"}, "_unary_expression",
                        "_primary_expression"))

\* NodeIntegerLiteral and NodeFloatLiteral of the parser's AST
NodeIntegerLiteral(value) == [kind |-> "NodeIntegerLiteral", value |-> value]

NodeFloatLiteral(value) == [kind |-> "NodeFloatLiteral", value |-> value]

\* _primary_expression at an identifier: the scanner is saved, the
\* identifier consumed, and if a parenthesis follows scanner and current
\* token are put back and _function_call parses the call
IdentifierOrCall(f, p) ==
    LET token == p.token
        lookahead == p.lexer
        consumed == _consume(p, "IDENTIFIER")
    IN  IF consumed.error # NoException
        THEN Then([lexer |-> lookahead, token |-> token, error |-> consumed.error],
                  Return(None))
        ELSE IF consumed.token.type = "LEFT_PARENTHESIS"
        THEN Then(Parser(lookahead, token), Invoke(At(f, "call"), "_function_call"))
        ELSE Then(consumed, Return(NodeIdentifier(token.value)))

PrimaryStep(f, p) ==
    CASE f.pc = "start" ->
            CASE p.token.type = "INT_LITERAL" ->
                    Then(_consume(p, "INT_LITERAL"), Return(NodeIntegerLiteral(p.token.value)))
              [] p.token.type = "FLOAT_LITERAL" ->
                    Then(_consume(p, "FLOAT_LITERAL"), Return(NodeFloatLiteral(p.token.value)))
              [] p.token.type = "STRING_LITERAL" ->
                    Then(_consume(p, "STRING_LITERAL"),
                         Return(NodeStringLiteral(p.token.value)))
              [] p.token.type = "IDENTIFIER" -> IdentifierOrCall(f, p)
              [] p.token.type = "LEFT_PARENTHESIS" ->
                    Then(_consume(p, "LEFT_PARENTHESIS"),
                         Invoke(At(f, "parenthesis"), "_arithmetic_expression"))
              [] OTHER -> Then(p, Raise(SyntacticError("UNEXPECTED_TOKEN")))
      [] f.pc = "call" -> Then(p, Return(ret))
      [] f.pc = "parenthesis" -> Then(_consume(p, "RIGHT_PARENTHESIS"), Return(ret))

_primary_expression ==
    /\ Parsing("_primary_expression")
    /\ Parse(PrimaryStep(Top, Here))

(***************************************************************************)
(* The programs the model runs.  Each is the tree of the source text in    *)
(* its comment.  Trees written with Raw... hold an arithmetic expression   *)
(* where a statement takes an expression; trees written with Expression    *)
(* hold it the way SyntacticAnalyzer._expression builds it, below a        *)
(* NodeArithmeticExpressionAsBoolean.                                      *)
(***************************************************************************)
Id(name) == NodeIdentifier(name)

Num(n) == NodeNumberLiteral(NatStr(n))

\* the tree of the integer n: a literal, below a unary minus when n < 0
IntLit(n) == IF n < 0 THEN NodeUnaryArithmeticOperation("-", Num(-n)) ELSE Num(n)

Text(s) == NodeStringLiteral(<<"'">> \o s \o <<"'">>)

True == NodeBooleanLiteral(<<"t", "r", "u", "e">>)

False == NodeBooleanLiteral(<<"f", "a", "l", "s", "e">>)

Bin(l, operator, r) == NodeBinaryArithmeticOperation(l, operator, r)

Cmp(l, comparator, r) == NodeComparisonExpression(l, comparator, r)

\* SyntacticAnalyzer._comparison_expression on an arithmetic expression e
\* that no comparison operator follows
Expression(e) == NodeArithmeticExpressionAsBoolean(e)

\* SyntacticAnalyzer._block: NodeBlock(statements if statements else None)
Block(statements) == NodeBlock(IF statements = <<>> THEN <<>> ELSE Some(statements))

Program(statements) == NodeProgram(Block(statements))

NumberType == NodeType("number")

Let(name, e) == NodeVariableDeclaration(NumberType, <<Id(name)>>, Some(<<e>>))

Assign(name, e) == NodeAssignmentStatement(Id(name), e)

Show(e) == NodeShowStatement(e)

Give(e) == NodeGiveStatement(e)

If(condition, statements) == NodeIfStatement(condition, Block(statements), <<>>, NoNode)

IfElse(condition, statements, others) ==
    NodeIfStatement(condition, Block(statements), <<>>, NodeElse(Block(others)))

While(condition, statements) == NodeWhileStatement(condition, Block(statements))

\* SyntacticAnalyzer._function_call: arguments is None when there are none
Arguments(l) == IF l = <<>> THEN <<>> ELSE Some(l)

Call(name, arguments) == NodeFunctionCall(Id(name), Arguments(arguments))

Exec(name, arguments) == NodeProcedureCall(Id(name), Arguments(arguments))

Parameters(names) ==
    IF names = <<>> THEN <<>>
    ELSE Some([k \in DOMAIN names |-> NodeParameter(Id(names[k]), NumberType)])

Func(name, names, statements) ==
    NodeFunctionDeclaration(Id(name), Parameters(names), NumberType, Block(statements))

Proc(name, names, statements) ==
    NodeProcedureDeclaration(Id(name), Parameters(names), Block(statements))

ArithmeticOperators == {"+", "-", "*", "/", "//", "%", "**"}

Operands == (-MaxInt)..MaxInt

\* { let number r = a op b } for every operator and every pair of operands
ArithmeticPrograms ==
    {Program(<<Let("r", Bin(IntLit(a), op, IntLit(b)))>>) :
        a \in Operands, b \in Operands, op \in ArithmeticOperators}

\* { let number x = 2
\*   show x + 3 }                       as the parser builds it
ProgShowSum ==
    Program(<<Let("x", Expression(Num(2))),
              Show(Expression(Bin(Id("x"), "+", Num(3))))>>)

\* the same statements over bare arithmetic expressions
ProgShowSumRaw ==
    Program(<<Let("x", Num(2)), Show(Bin(Id("x"), "+", Num(3)))>>)

\* { show true; show false; show 'ab'; show 12; show 7 // 2; show 7 % 2
\*   show 2 ** 3; show 'a' + 1; show 7 / 2; show 1.5 + 1; show 1 < 2 }
ProgShowValues ==
    Program(<<Show(True), Show(False), Show(Text(<<"a", "b">>)), Show(Num(12)),
              Show(Bin(Num(7), "//", Num(2))), Show(Bin(Num(7), "%", Num(2))),
              Show(Bin(Num(2), "**", Num(3))), Show(Bin(Text(<<"a">>), "+", Num(1))),
              Show(Bin(Num(7), "/", Num(2))),
              Show(Bin(NodeNumberLiteral(<<"1", ".", "5">>), "+", Num(1))),
              Show(Cmp(Num(1), "<", Num(2)))>>)

\* { show 1; show 5 / 0; show 2 }
ProgDivisionByZero ==
    Program(<<Show(Num(1)), Show(Bin(Num(5), "/", Num(0))), Show(Num(2))>>)

\* { let number s = 'a' + 1; show s; show 1 + 'a'; show 'a' + true
\*   show 'ab' * 2; show 'a' < 'b'; show 'a' == 1; show 'a' - 1 }
ProgTexts ==
    Program(<<Let("s", Bin(Text(<<"a">>), "+", Num(1))), Show(Id("s")),
              Show(Bin(Num(1), "+", Text(<<"a">>))),
              Show(Bin(Text(<<"a">>), "+", True)),
              Show(Bin(Text(<<"a", "b">>), "*", Num(2))),
              Show(Cmp(Text(<<"a">>), "<", Text(<<"b">>))),
              Show(Cmp(Text(<<"a">>), "==", Num(1))),
              Show(Bin(Text(<<"a">>), "-", Num(1)))>>)

\* { let number a, b; let string s; let boolean t; keep number c = 5
\*   show a; show s == ''; show t; show c; show -c; show not t; show b }
ProgDefaults ==
    Program(<<NodeVariableDeclaration(NumberType, <<Id("a"), Id("b")>>, <<>>),
              NodeVariableDeclaration(NodeType("string"), <<Id("s")>>, <<>>),
              NodeVariableDeclaration(NodeType("boolean"), <<Id("t")>>, <<>>),
              NodeConstantDeclaration(NumberType, <<Id("c")>>, <<Num(5)>>),
              Show(Id("a")), Show(Cmp(Id("s"), "==", Text(<<>>))), Show(Id("t")),
              Show(Id("c")), Show(NodeUnaryArithmeticOperation("-", Id("c"))),
              Show(NodeUnaryBooleanOperation("not", Id("t"))), Show(Id("b"))>>)

\* { func f(number n) -> number { give n + 1
\*                                show 9 }
\*   show f(2) }
ProgFunction ==
    Program(<<Func("f", <<"n">>, <<Give(Bin(Id("n"), "+", Num(1))), Show(Num(9))>>),
              Show(Call("f", <<Num(2)>>))>>)

\* { func f() -> number { give }; show f(); show 1 }
ProgEmptyGive ==
    Program(<<Func("f", <<>>, <<Give(NoNode)>>), Show(Call("f", <<>>)), Show(Num(1))>>)

\* { func f() -> number { show 1 }; show f(); show 2 }
ProgNoGive ==
    Program(<<Func("f", <<>>, <<Show(Num(1))>>), Show(Call("f", <<>>)), Show(Num(2))>>)

\* { func f(number n) -> number {
\*       let number i = 0
\*       while i < MaxLoop + 1 {
\*           i = i + 1
\*           if i == n { give i * 10; show 99 } else { show i }
\*           show 98 }
\*       show 97
\*       give 0 }
\*   show f(1); show f(MaxLoop); show f(MaxLoop + 2) }
ProgGiveNested ==
    Program(<<Func("f", <<"n">>,
                   <<Let("i", Num(0)),
                     While(Cmp(Id("i"), "<", Num(MaxLoop + 1)),
                           <<Assign("i", Bin(Id("i"), "+", Num(1))),
                             IfElse(Cmp(Id("i"), "==", Id("n")),
                                    <<Give(Bin(Id("i"), "*", Num(10))), Show(Num(99))>>,
                                    <<Show(Id("i"))>>),
                             Show(Num(98))>>),
                     Show(Num(97)),
                     Give(Num(0))>>),
              Show(Call("f", <<Num(1)>>)), Show(Call("f", <<Num(MaxLoop)>>)),
              Show(Call("f", <<Num(MaxLoop + 2)>>))>>)

\* { show 1; give 5; show 2 }
ProgGiveProgram == Program(<<Show(Num(1)), Give(Num(5)), Show(Num(2))>>)

\* { func f() -> number { give f() }; show f() }
ProgRecursion ==
    Program(<<Func("f", <<>>, <<Give(Call("f", <<>>))>>), Show(Call("f", <<>>))>>)

\* { func fact(number n) -> number { if n <= 1 { give 1 }
\*                                   give n * fact(n - 1) }
\*   show fact(3) }
ProgFactorial ==
    Program(<<Func("fact", <<"n">>,
                   <<If(Cmp(Id("n"), "<=", Num(1)), <<Give(Num(1))>>),
                     Give(Bin(Id("n"), "*",
                              Call("fact", <<Bin(Id("n"), "-", Num(1))>>)))>>),
              Show(Call("fact", <<Num(3)>>))>>)

\* { proc p(number a) { show a; give; show 9 }; exec p(1); show 2 }
ProgProcedure ==
    Program(<<Proc("p", <<"a">>, <<Show(Id("a")), Give(NoNode), Show(Num(9))>>),
              Exec("p", <<Num(1)>>), Show(Num(2))>>)

\* { proc p() { give 1 }; exec p(); show 2 }
ProgProcedureGives ==
    Program(<<Proc("p", <<>>, <<Give(Num(1))>>), Exec("p", <<>>), Show(Num(2))>>)

\* { let number x = 1; let number y = 2
\*   func f(number a) -> number { x = x + a; let number z = 3; give x + y + z }
\*   proc r() { show x }
\*   proc q(number x) { exec r() }
\*   show f(5); show x; exec q(7); exec r() }
ProgFrames ==
    Program(<<Let("x", Num(1)), Let("y", Num(2)),
              Func("f", <<"a">>,
                   <<Assign("x", Bin(Id("x"), "+", Id("a"))), Let("z", Num(3)),
                     Give(Bin(Bin(Id("x"), "+", Id("y")), "+", Id("z")))>>),
              Proc("r", <<>>, <<Show(Id("x"))>>),
              Proc("q", <<"x">>, <<Exec("r", <<>>)>>),
              Show(Call("f", <<Num(5)>>)), Show(Id("x")),
              Exec("q", <<Num(7)>>), Exec("r", <<>>)>>)

\* { func f(number a, number b) -> number { give b }; show f(1) }
ProgArity ==
    Program(<<Func("f", <<"a", "b">>, <<Give(Id("b"))>>), Show(Call("f", <<Num(1)>>))>>)

\* { show g() }
ProgUndeclared == Program(<<Show(Call("g", <<>>))>>)

\* { let number i = 0
\*   while i < MaxLoop + 1 { i = i + 1; if i == 1 { skip; show 99 }; show i }
\*   show 0 }
ProgWhileSkip ==
    Program(<<Let("i", Num(0)),
              While(Cmp(Id("i"), "<", Num(MaxLoop + 1)),
                    <<Assign("i", Bin(Id("i"), "+", Num(1))),
                      If(Cmp(Id("i"), "==", Num(1)),
                         <<NodeSkipStatement, Show(Num(99))>>),
                      Show(Id("i"))>>),
              Show(Num(0))>>)

\* { let number i = 0
\*   while true { i = i + 1; if i > MaxLoop { stop; show 99 }; show i }
\*   show 0 }
ProgWhileStop ==
    Program(<<Let("i", Num(0)),
              While(True,
                    <<Assign("i", Bin(Id("i"), "+", Num(1))),
                      If(Cmp(Id("i"), ">", Num(MaxLoop)),
                         <<NodeStopStatement, Show(Num(99))>>),
                      Show(Id("i"))>>),
              Show(Num(0))>>)

\* { let number i = 0
\*   while i < 2 { i = i + 1
\*                 let number j = 0
\*                 while true { j = j + 1; if j == 2 { stop }; if j == 1 { skip }
\*                              show 99 }
\*                 show i } }
ProgNestedLoops ==
    Program(<<Let("i", Num(0)),
              While(Cmp(Id("i"), "<", Num(2)),
                    <<Assign("i", Bin(Id("i"), "+", Num(1))),
                      Let("j", Num(0)),
                      While(True,
                            <<Assign("j", Bin(Id("j"), "+", Num(1))),
                              If(Cmp(Id("j"), "==", Num(2)), <<NodeStopStatement>>),
                              If(Cmp(Id("j"), "==", Num(1)), <<NodeSkipStatement>>),
                              Show(Num(99))>>),
                      Show(Id("i"))>>)>>)

\* { let number i = 0
\*   while i < MaxLoop { proc p() { skip }
\*                       i = i + 1
\*                       exec p()
\*                       show 99 }
\*   show i }
ProgSkipInCall ==
    Program(<<Let("i", Num(0)),
              While(Cmp(Id("i"), "<", Num(MaxLoop)),
                    <<Proc("p", <<>>, <<NodeSkipStatement>>),
                      Assign("i", Bin(Id("i"), "+", Num(1))),
                      Exec("p", <<>>),
                      Show(Num(99))>>),
              Show(Id("i"))>>)

\* { while true { func f() -> number { stop }
\*                show f() }
\*   show 1 }
ProgStopInCall ==
    Program(<<While(True, <<Func("f", <<>>, <<NodeStopStatement>>),
                            Show(Call("f", <<>>))>>),
              Show(Num(1))>>)

\* { show 1; skip; show 2 }
ProgSkipOutside == Program(<<Show(Num(1)), NodeSkipStatement, Show(Num(2))>>)

And(l, r) == NodeBinaryBooleanOperation(l, "and", r)

Or(l, r) == NodeBinaryBooleanOperation(l, "or", r)

\* { func t() -> boolean { show 1; give true }
\*   func f() -> boolean { show 0; give false }
\*   show f() and t(); show t() or f(); show t() and f(); show f() or t()
\*   show not f() }
ProgShortCircuit ==
    Program(<<Func("t", <<>>, <<Show(Num(1)), Give(True)>>),
              Func("f", <<>>, <<Show(Num(0)), Give(False)>>),
              Show(And(Call("f", <<>>), Call("t", <<>>))),
              Show(Or(Call("t", <<>>), Call("f", <<>>))),
              Show(And(Call("t", <<>>), Call("f", <<>>))),
              Show(Or(Call("f", <<>>), Call("t", <<>>))),
              Show(NodeUnaryBooleanOperation("not", Call("f", <<>>)))>>)

\* { show true and 1 }
ProgNonBoolean == Program(<<Show(And(True, Num(1)))>>)

\* { func f(number n) -> number {
\*       if n == 1 { show 1 } elif n == 2 { give 20; show 99 } elif n == 3 { show 3 }
\*       else { give 40 }
\*       give 0 }
\*   show f(1); show f(2); show f(3); show f(4)
\*   if false { show 99 } }
ProgIfChain ==
    Program(<<Func("f", <<"n">>,
                   <<NodeIfStatement(
                        Cmp(Id("n"), "==", Num(1)), Block(<<Show(Num(1))>>),
                        Some(<<NodeElif(Cmp(Id("n"), "==", Num(2)),
                                        Block(<<Give(Num(20)), Show(Num(99))>>)),
                               NodeElif(Cmp(Id("n"), "==", Num(3)),
                                        Block(<<Show(Num(3))>>))>>),
                        NodeElse(Block(<<Give(Num(40))>>))),
                     Give(Num(0))>>),
              Show(Call("f", <<Num(1)>>)), Show(Call("f", <<Num(2)>>)),
              Show(Call("f", <<Num(3)>>)), Show(Call("f", <<Num(4)>>)),
              If(False, <<Show(Num(99))>>)>>)

NamedPrograms ==
    {ProgShowSum, ProgShowSumRaw, ProgShowValues, ProgDivisionByZero, ProgTexts,
     ProgDefaults, ProgFunction, ProgEmptyGive, ProgNoGive, ProgGiveNested,
     ProgGiveProgram, ProgRecursion, ProgFactorial, ProgProcedure,
     ProgProcedureGives, ProgFrames, ProgArity, ProgUndeclared, ProgWhileSkip,
     ProgWhileStop, ProgNestedLoops, ProgSkipInCall, ProgStopInCall,
     ProgSkipOutside, ProgShortCircuit, ProgNonBoolean, ProgIfChain}

Programs == NamedPrograms \cup ArithmeticPrograms

(***************************************************************************)
(* The interpreter run on one program.                                     *)
(***************************************************************************)
Init ==
    /\ tree \in Programs
    /\ phase = "ready"
    /\ ctl = <<>>
    /\ ret = None
    /\ exc = NoException
    /\ call_stack = <<>>
    /\ functions = EmptyDict
    /\ procedures = EmptyDict
    /\ out = <<>>
    /\ current_scope = <<>>
    /\ text = <<>>
    /\ lexer = LexicalAnalyzer
    /\ current_token = NoToken
    /\ peeked = NoToken

Next ==
    \/ interpret
    \/ visit_NodeProgram
    \/ visit_NodeBlock
    \/ visit_NodeVariableDeclaration
    \/ visit_NodeConstantDeclaration
    \/ visit_NodeAssignmentStatement
    \/ visit_NodeGiveStatement
    \/ visit_NodeShowStatement
    \/ visit_NodeFunctionDeclaration
    \/ visit_NodeProcedureDeclaration
    \/ visit_NodeFunctionCall
    \/ visit_NodeProcedureCall
    \/ visit_NodeIfStatement
    \/ visit_NodeWhileStatement
    \/ visit_NodeSkipStatement
    \/ visit_NodeStopStatement
    \/ visit_NodeIdentifier
    \/ visit_NodeBinaryArithmeticOperation
    \/ visit_NodeUnaryArithmeticOperation
    \/ visit_NodeBinaryBooleanOperation
    \/ visit_NodeUnaryBooleanOperation
    \/ visit_NodeComparisonExpression
    \/ visit_NodeArithmeticExpressionAsBoolean
    \/ visit_NodeNumberLiteral
    \/ visit_NodeStringLiteral
    \/ visit_NodeBooleanLiteral
    \/ _evaluate_boolean_expression
    \/ Propagate

Spec == Init /\ [][Next]_vars

(***************************************************************************)
(* The analyzer run on one program.                                        *)
(***************************************************************************)
Keep(name, e) == NodeConstantDeclaration(NumberType, <<Id(name)>>, <<e>>)

\* { let number x = 1
\*   func f(number x) -> number {
\*       let string y = 'a'
\*       if x == 1 { let boolean x = true
\*                   show x
\*                   x = false }
\*       give x }
\*   while x < 2 { keep number y = 2
\*                 let number x = 5
\*                 show x + y
\*                 stop }
\*   show f(x) }
ProgShadow ==
    Program(<<Let("x", Num(1)),
              Func("f", <<"x">>,
                   <<NodeVariableDeclaration(NodeType("string"), <<Id("y")>>,
                                             Some(<<Text(<<"a">>)>>)),
                     If(Cmp(Id("x"), "==", Num(1)),
                        <<NodeVariableDeclaration(NodeType("boolean"), <<Id("x")>>,
                                                  Some(<<True>>)),
                          Show(Id("x")),
                          Assign("x", False)>>),
                     Give(Id("x"))>>),
              While(Cmp(Id("x"), "<", Num(2)),
                    <<Keep("y", Num(2)), Let("x", Num(5)),
                      Show(Bin(Id("x"), "+", Id("y"))), NodeStopStatement>>),
              Show(Call("f", <<Id("x")>>))>>)

\* { let number x = 1; show x; let number x = 2 }
ProgDuplicateVariable ==
    Program(<<Let("x", Num(1)), Show(Id("x")), Let("x", Num(2))>>)

\* { let number a, a }
ProgDuplicateInList ==
    Program(<<NodeVariableDeclaration(NumberType, <<Id("a"), Id("a")>>, <<>>)>>)

\* { let number x = 1; keep number x = 2 }
ProgDuplicateConstant == Program(<<Let("x", Num(1)), Keep("x", Num(2))>>)

\* { let number f = 1; func f() -> number { give 1 } }
ProgDuplicateFunction ==
    Program(<<Let("f", Num(1)), Func("f", <<>>, <<Give(Num(1))>>)>>)

\* { proc p() { show 1 }; proc p() { show 2 } }
ProgDuplicateProcedure ==
    Program(<<Proc("p", <<>>, <<Show(Num(1))>>), Proc("p", <<>>, <<Show(Num(2))>>)>>)

\* { func f(number a) -> number { let number a = 1; give a } }
ProgDuplicateParameter ==
    Program(<<Func("f", <<"a">>, <<Let("a", Num(1)), Give(Id("a"))>>)>>)

\* { let number x = 1; if true { keep number x = 2; x = 3 } }
ProgShadowConstant ==
    Program(<<Let("x", Num(1)),
              If(True, <<Keep("x", Num(2)), Assign("x", Num(3))>>)>>)

\* { func f() -> number { let number f = 1; give f() } }
ProgShadowFunction ==
    Program(<<Func("f", <<>>, <<Let("f", Num(1)), Give(Call("f", <<>>))>>)>>)

\* { if true { let number x = 1 }; show x }
ProgScopeEnds ==
    Program(<<If(True, <<Let("x", Num(1))>>), Show(Id("x"))>>)

\* { let number a = 1
\*   func f(number b) -> number {
\*       while b < a { if true { show a + b; stop } }
\*       give b }
\*   show f(a) }
ProgResolve ==
    Program(<<Let("a", Num(1)),
              Func("f", <<"b">>,
                   <<While(Cmp(Id("b"), "<", Id("a")),
                           <<If(True, <<Show(Bin(Id("a"), "+", Id("b"))),
                                        NodeStopStatement>>)>>),
                     Give(Id("b"))>>),
              Show(Call("f", <<Id("a")>>))>>)

\* { if true { let number x = 1 } else { show x } }
ProgSibling ==
    Program(<<IfElse(True, <<Let("x", Num(1))>>, <<Show(Id("x"))>>)>>)

\* { func f() -> number {
\*       proc p() { if true { give } }
\*       while true { if true { give 1 } }
\*       give 2 } }
ProgNestedGive ==
    Program(<<Func("f", <<>>,
                   <<Proc("p", <<>>, <<If(True, <<Give(NoNode)>>)>>),
                     While(True, <<If(True, <<Give(Num(1))>>)>>),
                     Give(Num(2))>>)>>)

\* { proc p() { func f() -> number { while true { give } } } }
ProgNestedEmptyGive ==
    Program(<<Proc("p", <<>>,
                   <<Func("f", <<>>, <<While(True, <<Give(NoNode)>>)>>)>>)>>)

\* { func f() -> number { proc p() { give 1 }; give 2 } }
ProgNestedGiveValue ==
    Program(<<Func("f", <<>>,
                   <<Proc("p", <<>>, <<Give(Num(1))>>), Give(Num(2))>>)>>)

\* { proc p() { give 1 }; exec p() }
ProgProcedureGivesOne ==
    Program(<<Proc("p", <<>>, <<Give(Num(1))>>), Exec("p", <<>>)>>)

\* { if true { while false { give 1 } } }
ProgGiveInIf ==
    Program(<<If(True, <<While(False, <<Give(Num(1))>>)>>)>>)

\* { if true { skip } }
ProgSkipInIf == Program(<<If(True, <<NodeSkipStatement>>)>>)

\* { if true { show 1 } else { stop } }
ProgStopInElse == Program(<<IfElse(True, <<Show(Num(1))>>, <<NodeStopStatement>>)>>)

\* { while true { if true { if false { skip } else { stop } } } }
ProgLoopControlDeep ==
    Program(<<While(True,
                    <<If(True, <<IfElse(False, <<NodeSkipStatement>>,
                                        <<NodeStopStatement>>)>>)>>)>>)

\* { while false { show 1 }; stop }
ProgStopAfterLoop ==
    Program(<<While(False, <<Show(Num(1))>>), NodeStopStatement>>)

\* { x = 1 }
ProgAssignUndeclared == Program(<<Assign("x", Num(1))>>)

\* { keep number c = 1; c = y }
ProgAssignConstant == Program(<<Keep("c", Num(1)), Assign("c", Id("y"))>>)

\* { func f() -> number { give 1 }; f = y }
ProgAssignFunction ==
    Program(<<Func("f", <<>>, <<Give(Num(1))>>), Assign("f", Id("y"))>>)

\* { proc p() { give }; p = y }
ProgAssignProcedure ==
    Program(<<Proc("p", <<>>, <<Give(NoNode)>>), Assign("p", Id("y"))>>)

\* the tree of an assignment to the built-in type name number
ProgAssignType == Program(<<Assign("number", Id("y"))>>)

\* { let number v = 1; if true { v = v + 1 } }
ProgAssignVariable ==
    Program(<<Let("v", Num(1)), If(True, <<Assign("v", Bin(Id("v"), "+", Num(1)))>>)>>)

\* { proc p() { give }; exec p(1) }
ProgArityMany ==
    Program(<<Proc("p", <<>>, <<Give(NoNode)>>), Exec("p", <<Num(1)>>)>>)

\* { func f(number a) -> number { give a }; show f(y, z) }
ProgArityBeforeArguments ==
    Program(<<Func("f", <<"a">>, <<Give(Id("a"))>>),
              Show(Call("f", <<Id("y"), Id("z")>>))>>)

\* { let number v = 1; show v() }
ProgCallVariable == Program(<<Let("v", Num(1)), Show(Call("v", <<>>))>>)

\* { func f() -> number { give 1 }; exec f() }
ProgExecFunction ==
    Program(<<Func("f", <<>>, <<Give(Num(1))>>), Exec("f", <<>>)>>)

\* { proc p(number a, number b) { show a + b }; exec p(1, 2) }
ProgExecTwo ==
    Program(<<Proc("p", <<"a", "b">>, <<Show(Bin(Id("a"), "+", Id("b")))>>),
              Exec("p", <<Num(1), Num(2)>>)>>)

SemanticPrograms ==
    {ProgShadow, ProgDuplicateVariable, ProgDuplicateInList, ProgDuplicateConstant,
     ProgDuplicateFunction, ProgDuplicateProcedure, ProgDuplicateParameter,
     ProgShadowConstant, ProgShadowFunction, ProgScopeEnds, ProgResolve,
     ProgSibling, ProgNestedGive, ProgNestedEmptyGive, ProgNestedGiveValue,
     ProgProcedureGivesOne, ProgGiveInIf, ProgSkipInIf, ProgStopInElse,
     ProgLoopControlDeep, ProgStopAfterLoop, ProgAssignUndeclared,
     ProgAssignConstant, ProgAssignFunction, ProgAssignProcedure, ProgAssignType,
     ProgAssignVariable, ProgArityMany, ProgArityBeforeArguments, ProgCallVariable,
     ProgExecFunction, ProgExecTwo}

InitSem ==
    /\ tree \in NamedPrograms \cup SemanticPrograms
    /\ phase = "ready"
    /\ ctl = <<>>
    /\ ret = None
    /\ exc = NoException
    /\ call_stack = <<>>
    /\ functions = EmptyDict
    /\ procedures = EmptyDict
    /\ out = <<>>
    /\ current_scope = GlobalScope
    /\ text = <<>>
    /\ lexer = LexicalAnalyzer
    /\ current_token = NoToken
    /\ peeked = NoToken

NextSem ==
    \/ analyze
    \/ SemanticAnalyzer_visit_NodeProgram
    \/ SemanticAnalyzer_visit_NodeBlock
    \/ SemanticAnalyzer_visit_NodeVariableDeclaration
    \/ SemanticAnalyzer_visit_NodeConstantDeclaration
    \/ SemanticAnalyzer_visit_NodeFunctionDeclaration
    \/ SemanticAnalyzer_visit_NodeProcedureDeclaration
    \/ SemanticAnalyzer_visit_NodeAssignmentStatement
    \/ SemanticAnalyzer_visit_NodeFunctionCall
    \/ SemanticAnalyzer_visit_NodeProcedureCall
    \/ SemanticAnalyzer_visit_NodeGiveStatement
    \/ SemanticAnalyzer_visit_NodeShowStatement
    \/ SemanticAnalyzer_visit_NodeIfStatement
    \/ SemanticAnalyzer_visit_NodeElif
    \/ SemanticAnalyzer_visit_NodeElse
    \/ SemanticAnalyzer_visit_NodeWhileStatement
    \/ SemanticAnalyzer_visit_NodeSkipStatement
    \/ SemanticAnalyzer_visit_NodeStopStatement
    \/ SemanticAnalyzer_visit_NodeIdentifier
    \/ SemanticAnalyzer_visit_NodeArithmeticExpressionAsBoolean
    \/ SemanticAnalyzer_visit_NodeBinaryArithmeticOperation
    \/ SemanticAnalyzer_visit_NodeUnaryArithmeticOperation
    \/ SemanticAnalyzer_visit_NodeBinaryBooleanOperation
    \/ SemanticAnalyzer_visit_NodeUnaryBooleanOperation
    \/ SemanticAnalyzer_visit_NodeComparisonExpression
    \/ SemanticAnalyzer_visit_NodeNumberLiteral
    \/ SemanticAnalyzer_visit_NodeStringLiteral
    \/ SemanticAnalyzer_visit_NodeBooleanLiteral
    \/ Propagate

SpecSem == InitSem /\ [][NextSem]_vars

(***************************************************************************)
(* Properties of the interpreter.                                          *)
(***************************************************************************)
\* the frame f is between the push and the pop of an activation record
HoldsRecord(f) ==
    \/ f.fn = "NodeProgram" /\ f.pc = "block"
    \/ f.fn \in {"NodeFunctionCall", "NodeProcedureCall"} /\ f.pc = "body"

\* the number of bodies entered and not yet left
OpenBodies == Cardinality({k \in DOMAIN ctl : HoldsRecord(ctl[k])})

\* the innermost pending call goes on as f and calls fn on node
Calls(f, fn, node) ==
    IF Len(ctl) >= MaxDepth THEN exc' = RecursionError
    ELSE exc' = NoException /\ ctl' = Rest \o <<f, Frame(fn, node)>>

\* the innermost pending call returns value
Returns(value) == exc' = NoException /\ ctl' = Rest /\ ret' = value

\* the innermost pending call raises e
Raises(e) == exc' = e /\ ctl' = Rest /\ ret' = None

\* C1: pushes and pops of activation records balance: while the interpreter
\* runs with no exception in flight (so also when a while loop resumes after
\* catching skip or stop) the call stack holds exactly the records of the
\* bodies entered and not yet left, and it is empty once interpret() has
\* returned normally.
C1_CallStackBalanced ==
    /\ (phase = "running" /\ exc = NoException) => Len(call_stack) = OpenBodies
    /\ phase = "returned" => call_stack = <<>>

\* C2: a block, an if statement or a while loop that receives a give-signal
\* from a statement or body returns that same signal at once: it runs no
\* later statement, checks no condition, and changes neither the output nor
\* the call stack.
C2_GiveShortCircuits ==
    [][(/\ phase = "running"
        /\ exc = NoException
        /\ Top.fn \in {"NodeBlock", "NodeIfStatement", "NodeWhileStatement"}
        /\ ret.t = "dict")
       => (Returns(ret) /\ out' = out /\ call_stack' = call_stack)]_vars

\* a give-signal from the body of a loop inside a function has passed the
\* loop after the loop had shown output
C2_Witness ==
    /\ phase = "running"
    /\ exc = NoException
    /\ tree = ProgGiveNested
    /\ Top.fn = "NodeFunctionCall"
    /\ Top.pc = "body"
    /\ ret = GiveDict(PyInt(10 * MaxLoop))
    /\ Len(out) >= 3

\* C3: a function call whose body has returned gives back exactly the value
\* of the give-signal the body ended with; when that signal carries no value
\* or the body returned no signal, the call raises a runtime error (empty
\* give, resp. function not giving) and returns nothing.
C3_FunctionCallResult ==
    [][(/\ phase = "running"
        /\ exc = NoException
        /\ Top.fn = "NodeFunctionCall"
        /\ Top.pc = "body")
       => CASE ret.t = "dict" /\ ret.gt # "None" ->
                    Returns([t |-> ret.gt, gt |-> "", n |-> ret.n, d |-> ret.d, s |-> ret.s])
            [] ret.t = "dict" /\ ret.gt = "None" ->
                    Raises(RuntimeError("FUNCTION_EMPTY_GIVE"))
            [] OTHER -> Raises(RuntimeError("FUNCTION_NOT_GIVING"))]_vars

\* the value given by f(2) has reached the show statement that called f
C3_Witness ==
    /\ phase = "running"
    /\ exc = NoException
    /\ tree = ProgFunction
    /\ Top.fn = "NodeShowStatement"
    /\ Top.pc = "expression"
    /\ ret = PyInt(3)

\* C4: a procedure call whose body has returned a give-signal carrying a
\* value raises the procedure-giving-value runtime error; otherwise it
\* returns None, and the block holding the call goes on with the statement
\* after it.
C4_ProcedureCallResult ==
    [][/\ (/\ phase = "running"
           /\ exc = NoException
           /\ Top.fn = "NodeProcedureCall"
           /\ Top.pc = "body")
          => IF ret.t = "dict" /\ ret.gt # "None"
             THEN Raises(RuntimeError("PROCEDURE_GIVING_VALUE"))
             ELSE Returns(None)
       /\ (/\ phase = "running"
           /\ exc = NoException
           /\ Top.fn = "NodeBlock"
           /\ Top.pc = "statement"
           /\ Top.node.statements[1][Top.i].kind = "NodeProcedureCall"
           /\ Top.i < Len(Top.node.statements[1]))
          => Calls([Top EXCEPT !.i = Top.i + 1],
                   Top.node.statements[1][Top.i + 1].kind,
                   Top.node.statements[1][Top.i + 1])]_vars

\* the procedure ended by an empty give, and the statement after the call ran
C4_Witness ==
    /\ tree = ProgProcedure
    /\ phase = "returned"
    /\ out = <<<<"1">>, <<"2">>>>

\* C5: a while loop enters its body only from a condition check that gave
\* true; when skip reaches the loop the next step is the condition check,
\* when stop reaches it the loop returns without checking the condition;
\* and between the skip or stop statement and the loop nothing runs: the
\* pending calls in between are left one by one, writing no output.
C5_WhileControl ==
    [][/\ (/\ phase = "running"
           /\ Top.fn = "NodeWhileStatement"
           /\ Len(ctl') > Len(ctl)
           /\ ctl'[Len(ctl')].fn = "NodeBlock")
          => (exc = NoException /\ Top.pc = "condition" /\ ret = PyBool(TRUE))
       /\ (/\ phase = "running"
           /\ Top.fn = "NodeWhileStatement"
           /\ exc = NoException
           /\ Top.pc \in {"start", "block"}
           /\ ret.t # "dict")
          => Calls(At(Top, "condition"), "_evaluate_boolean_expression",
                   Top.node.condition)
       /\ (phase = "running" /\ Top.fn = "NodeWhileStatement" /\ exc = SkipException)
          => Calls(At(Top, "condition"), "_evaluate_boolean_expression",
                   Top.node.condition)
       /\ (phase = "running" /\ Top.fn = "NodeWhileStatement" /\ exc = StopException)
          => Returns(None)
       /\ (/\ phase = "running"
           /\ Top.fn # "NodeWhileStatement"
           /\ exc \in {SkipException, StopException})
          => (ctl' = Rest /\ exc' = exc /\ out' = out)]_vars

\* a loop has caught skip in its first iteration and gone on to the end
C5_Witness ==
    /\ tree = ProgWhileSkip
    /\ phase = "returned"
    /\ out = <<<<"2">>, <<"3">>, <<"0">>>>

\* a call has looked up its callable, evaluated its arguments and is about
\* to create the activation record of the body
Entering ==
    /\ phase = "running"
    /\ exc = NoException
    /\ Top.fn \in {"NodeFunctionCall", "NodeProcedureCall"}
    /\ Top.pc = "enter"
    /\ Top.sym # <<>>

\* the innermost pending call is visit_NodeIdentifier and reads the record
\* on top of the call stack, and nothing else
ReadsTopRecord ==
    (phase = "running" /\ exc = NoException /\ Top.fn = "NodeIdentifier")
    => IF Top.node.name \in DOMAIN call_stack[Len(call_stack)].members
       THEN Returns(call_stack[Len(call_stack)].members[Top.node.name])
       ELSE Raises(RuntimeError("UNDECLARED_IDENTIFIER"))

\* C6 as stated: the record created for a call binds, at entry to the body,
\* the callee's parameters to the argument values and nothing else, and an
\* identifier is read from that record only.
C6_ParametersOnly ==
    [][/\ Entering =>
            LET parameters == OrEmpty(Top.sym[1].parameters)
                callee == call_stack'[Len(call_stack')]
            IN  /\ call_stack' = Append(call_stack, callee)
                /\ DOMAIN callee.members =
                        {parameters[k].identifier : k \in DOMAIN parameters}
                /\ \A k \in DOMAIN parameters :
                        callee.members[parameters[k].identifier] = Top.loc[k]
       /\ ReadsTopRecord]_vars

\* C6 as the code has it: the record created for a call holds, at entry to
\* the body, a copy of every binding of the caller's record, overridden by
\* the parameters that zip pairs with an argument value; the caller's record
\* itself stays as it is, and an identifier is read from the record on top
\* of the call stack only.
C6_InheritsCallerFrame ==
    [][/\ Entering =>
            LET parameters == OrEmpty(Top.sym[1].parameters)
                paired == {k \in DOMAIN parameters : k <= Len(Top.loc)}
                bound == {parameters[k].identifier : k \in paired}
                last(name) ==
                    CHOOSE k \in paired :
                        /\ parameters[k].identifier = name
                        /\ \A j \in paired : parameters[j].identifier = name => j <= k
                caller == call_stack[Len(call_stack)]
                callee == call_stack'[Len(call_stack')]
            IN  /\ call_stack' = Append(call_stack, callee)
                /\ callee.nesting_level = caller.nesting_level + 1
                /\ DOMAIN callee.members = DOMAIN caller.members \cup bound
                /\ \A name \in DOMAIN callee.members :
                        callee.members[name] =
                            IF name \in bound THEN Top.loc[last(name)]
                            ELSE caller.members[name]
       /\ ReadsTopRecord]_vars

\* inside f, called with one argument from the program, the variable y of
\* the program is about to be read from f's record
C6_Witness ==
    /\ phase = "running"
    /\ exc = NoException
    /\ tree = ProgFrames
    /\ Top.fn = "NodeIdentifier"
    /\ Top.node.name = "y"
    /\ Len(call_stack) = 2
    /\ call_stack[2].name = "f"
    /\ call_stack[2].members["a"] = PyInt(5)
    /\ call_stack[2].members["y"] = PyInt(2)

\* C7: and / or evaluate the left operand first, from the start of the
\* operation only; the right operand is evaluated only after the left one
\* gave true (and) resp. false (or); otherwise the operation returns the
\* left value at once, and the step changes neither output nor call stack.
C7_BooleanShortCircuit ==
    [][(/\ phase = "running"
        /\ exc = NoException
        /\ Top.fn = "NodeBinaryBooleanOperation"
        /\ Top.node.logical_operator \in {"and", "or"})
       => /\ out' = out
          /\ call_stack' = call_stack
          /\ CASE Top.pc = "start" ->
                    Calls(At(Top, "left"), "_evaluate_boolean_expression", Top.node.left)
               [] Top.pc = "left" ->
                    IF ret = PyBool(Top.node.logical_operator = "and")
                    THEN Calls(At(Top, "right"), "_evaluate_boolean_expression",
                               Top.node.right)
                    ELSE Returns(ret)
               [] Top.pc = "right" -> Returns(ret)]_vars

\* f() and t() showed 0 only, t() or f() showed 1 only, t() and f() and
\* f() or t() showed both, left first
C7_Witness ==
    /\ tree = ProgShortCircuit
    /\ phase = "returned"
    /\ out = <<<<"0">>, <<"F", "a", "l", "s", "e">>,
               <<"1">>, <<"T", "r", "u", "e">>,
               <<"1">>, <<"0">>, <<"F", "a", "l", "s", "e">>,
               <<"0">>, <<"1">>, <<"T", "r", "u", "e">>,
               <<"0">>, <<"T", "r", "u", "e">>>>

\* q is the floor of l / r
IsFloor(q, l, r) ==
    IF r > 0 THEN q * r <= l /\ l < (q + 1) * r
    ELSE q * r >= l /\ l > (q + 1) * r

\* m is l modulo r: l less a multiple of r, with the sign of r
IsModulo(m, l, r) ==
    /\ \E q \in (-(Abs(l) + 1))..(Abs(l) + 1) : l = q * r + m
    /\ IF r > 0 THEN 0 <= m /\ m < r ELSE r < m /\ m <= 0

\* C8: on two int operands + adds, // gives the floor of the quotient, %
\* the modulo, ** with an exponent >= 0 the power, / the quotient as a float,
\* and / // % with a zero right operand raise the division-by-zero runtime
\* error; + with a str operand gives the concatenation of the two texts.
C8_BinaryArithmetic ==
    [][(/\ phase = "running"
        /\ exc = NoException
        /\ Top.fn = "NodeBinaryArithmeticOperation"
        /\ Top.pc = "right"
        /\ Top.loc[1].t \in {"int", "str"}
        /\ ret.t \in {"int", "str"})
       => LET l == Top.loc[1]
              r == ret
              operator == Top.node.operator
              ints == l.t = "int" /\ r.t = "int"
              power[e \in Nat] == IF e = 0 THEN 1 ELSE l.n * power[e - 1]
          IN  CASE operator = "+" /\ ints -> Returns(PyInt(l.n + r.n))
                [] operator = "+" /\ ~ints -> Returns(PyStr(Str(l) \o Str(r)))
                [] operator \in {"/", "//", "%"} /\ ints /\ r.n = 0 ->
                        Raises(RuntimeError("DIVISION_BY_ZERO"))
                [] operator = "//" /\ ints /\ r.n # 0 ->
                        /\ Returns(ret')
                        /\ ret'.t = "int"
                        /\ IsFloor(ret'.n, l.n, r.n)
                [] operator = "%" /\ ints /\ r.n # 0 ->
                        /\ Returns(ret')
                        /\ ret'.t = "int"
                        /\ IsModulo(ret'.n, l.n, r.n)
                [] operator = "/" /\ ints /\ r.n # 0 ->
                        /\ Returns(ret')
                        /\ ret'.t = "float"
                        /\ ret'.n * r.n = l.n * ret'.d
                [] operator = "**" /\ ints /\ r.n >= 0 -> Returns(PyInt(power[r.n]))
                [] OTHER -> TRUE]_vars

\* 7 // 2, 7 % 2, 2 ** 3 and 'a' + 1 were shown as 3, 1, 8 and a1
C8_Witness ==
    /\ tree = ProgShowValues
    /\ phase = "returned"
    /\ SubSeq(out, 5, 8) = <<<<"3">>, <<"1">>, <<"8">>, <<"a", "1">>>>

\* the canonical text of a value of the language
CanonicalText(v) ==
    CASE v.t = "bool" -> IF v.n = 1 THEN <<"t", "r", "u", "e">>
                         ELSE <<"f", "a", "l", "s", "e">>
      [] v.t = "str" -> v.s
      [] v.t = "int" -> IntStr(v.n)
      [] v.t = "float" -> FloatStr(v.n, v.d)

\* C9: show writes one line, the canonical text of the value of its
\* expression (true / false for a boolean, the number for a number, the text
\* itself for a string); the program { let number x = 2  show x + 3 }, as
\* parsed, writes the single line 5.
C9_ShowCanonicalText ==
    /\ [][(/\ phase = "running"
           /\ exc = NoException
           /\ Top.fn = "NodeShowStatement"
           /\ Top.pc = "expression")
          => out' = Append(out, CanonicalText(ret))]_vars
    /\ []((tree = ProgShowSum /\ phase = "returned") => out = <<<<"5">>>>)

(***************************************************************************)
(* Properties of the analyzer.                                             *)
(***************************************************************************)
\* the analyzer is about to declare a name: an identifier of a variable or
\* constant declaration, or the name of a function or procedure
AtDeclaration ==
    /\ phase = "analyzing"
    /\ exc = NoException
    /\ \/ /\ Top.fn \in {"NodeVariableDeclaration", "NodeConstantDeclaration"}
          /\ Top.i < Len(Top.node.identifiers)
       \/ /\ Top.fn \in {"NodeFunctionDeclaration", "NodeProcedureDeclaration"}
          /\ Top.pc = "start"

DeclaredName ==
    IF Top.fn \in {"NodeVariableDeclaration", "NodeConstantDeclaration"}
    THEN Top.node.identifiers[Top.i + 1].name
    ELSE Top.node.identifier.name

DeclaredClass ==
    CASE Top.fn = "NodeVariableDeclaration" -> "VariableSymbol"
      [] Top.fn = "NodeConstantDeclaration" -> "ConstantSymbol"
      [] Top.fn = "NodeFunctionDeclaration" -> "FunctionSymbol"
      [] Top.fn = "NodeProcedureDeclaration" -> "ProcedureSymbol"

\* the symbol of the innermost scope on the chain that defines name
Resolved(scopes, name) ==
    LET ks == {k \in DOMAIN scopes : name \in DOMAIN scopes[k].symbols}
    IN  IF ks = {} THEN <<>>
        ELSE <<scopes[CHOOSE k \in ks : \A j \in ks : j <= k].symbols[name]>>

\* C10: a declaration of a name the current scope already defines is
\* rejected with the duplicate-identifier error and defines nothing; any
\* other declaration, also of a name an enclosing scope defines, is accepted
\* and defines the name in the current scope, leaving the enclosing scopes
\* as they are; an identifier or the target of an assignment resolves to the
\* symbol of the innermost scope that defines the name.
C10_ScopedDeclarations ==
    [][/\ AtDeclaration =>
            LET n == Len(current_scope)
            IN  IF DeclaredName \in DOMAIN current_scope[n].symbols
                THEN /\ Raises(SemanticError("SEM_DUPLICATE_IDENTIFIER"))
                     /\ current_scope' = current_scope
                ELSE /\ exc'.class # "SemanticError"
                     /\ SubSeq(current_scope', 1, n - 1) = SubSeq(current_scope, 1, n - 1)
                     /\ DOMAIN current_scope'[n].symbols =
                            DOMAIN current_scope[n].symbols \cup {DeclaredName}
                     /\ current_scope'[n].symbols[DeclaredName].kind = DeclaredClass
                     /\ \A name \in DOMAIN current_scope[n].symbols :
                            current_scope'[n].symbols[name] = current_scope[n].symbols[name]
       /\ (phase = "analyzing" /\ exc = NoException /\ Top.fn = "NodeIdentifier")
          => IF Resolved(current_scope, Top.node.name) = <<>>
             THEN Raises(SemanticError("SEM_UNDECLARED_IDENTIFIER"))
             ELSE Returns(None)
       /\ (/\ phase = "analyzing"
           /\ exc = NoException
           /\ Top.fn = "NodeAssignmentStatement"
           /\ Top.pc = "start"
           /\ Resolved(current_scope, Top.node.identifier.name) # <<>>)
          => LET class == Resolved(current_scope, Top.node.identifier.name)[1].kind
             IN  CASE class = "ConstantSymbol" ->
                        Raises(SemanticError("SEM_ASSIGNMENT_TO_CONSTANT"))
                   [] class = "VariableSymbol" ->
                        Calls(At(Top, "expression"), Top.node.expression.kind,
                              Top.node.expression)
                   [] OTHER -> Raises(SemanticError("SEM_WRONG_SYMBOL_TYPE"))]_vars

\* a constant x was declared in an if block below the variable x of the
\* program, and an assignment to x is about to be resolved from the block
C10_Witness ==
    /\ phase = "analyzing"
    /\ exc = NoException
    /\ tree = ProgShadowConstant
    /\ Top.fn = "NodeAssignmentStatement"
    /\ Top.pc = "start"
    /\ Len(current_scope) = 2
    /\ current_scope[1].symbols["x"].kind = "VariableSymbol"
    /\ current_scope[2].symbols["x"].kind = "ConstantSymbol"

\* the frame f is between entering and leaving a scope of its own
HoldsScope(f) ==
    /\ f.fn \in {"NodeFunctionDeclaration", "NodeProcedureDeclaration",
                 "NodeIfStatement", "NodeElif", "NodeElse", "NodeWhileStatement"}
    /\ f.pc = "block"

\* the ScopeType of the scope such a frame enters
ScopeTypeOf(f) ==
    CASE f.fn = "NodeFunctionDeclaration" -> "FUNCTION"
      [] f.fn = "NodeProcedureDeclaration" -> "PROCEDURE"
      [] f.fn = "NodeIfStatement" -> "IF_BLOCK"
      [] f.fn = "NodeElif" -> "ELIF_BLOCK"
      [] f.fn = "NodeElse" -> "ELSE_BLOCK"
      [] f.fn = "NodeWhileStatement" -> "WHILE_BLOCK"

\* the blocks and bodies the analyzer is inside of, outermost first
OpenScopes == SelectSeq(ctl, HoldsScope)

\* some scope of the chain defines name
Declared(name) == \E k \in DOMAIN current_scope : name \in DOMAIN current_scope[k].symbols

\* the analyzer is at the start of the visit method fn
AnalyzerAt(fn) ==
    /\ phase = "analyzing"
    /\ exc = NoException
    /\ Top.fn = fn
    /\ Top.pc = "start"

\* analysis of the program has ended with a SemanticError of this code
RejectedWith(code) == phase = "rejected" /\ exc = SemanticError(code)

Ended == phase \in {"analyzed", "rejected"}

\* C11: the scope chain is the program scope followed by one scope for each
\* body or block the analyzer is inside of, in order (a scope that was left
\* is no longer on it); an identifier is accepted when some scope of the
\* chain defines its name and rejected with the undeclared-identifier error
\* when none does, as is the name of a call or the target of an assignment;
\* a name declared in an if block is undeclared after the block and in its
\* else block, and names of the enclosing scopes are accepted three blocks
\* further in.
C11_IdentifierResolution ==
    /\ []((phase = "analyzing" /\ exc = NoException)
          => /\ Len(current_scope) = 1 + Len(OpenScopes)
             /\ current_scope[1].type = "PROGRAM"
             /\ \A k \in DOMAIN OpenScopes :
                    /\ current_scope[k + 1].type = ScopeTypeOf(OpenScopes[k])
                    /\ current_scope[k + 1].level = k + 1)
    /\ [][/\ (phase = "analyzing" /\ exc = NoException /\ Top.fn = "NodeIdentifier")
             => IF Declared(Top.node.name) THEN Returns(None) /\ current_scope' = current_scope
                ELSE Raises(SemanticError("SEM_UNDECLARED_IDENTIFIER"))
          /\ (/\ \/ AnalyzerAt("NodeFunctionCall")
                 \/ AnalyzerAt("NodeProcedureCall")
                 \/ AnalyzerAt("NodeAssignmentStatement")
              /\ ~Declared(Top.node.identifier.name))
             => Raises(SemanticError("SEM_UNDECLARED_IDENTIFIER"))]_vars
    /\ []((tree \in {ProgScopeEnds, ProgSibling} /\ Ended)
          => RejectedWith("SEM_UNDECLARED_IDENTIFIER"))
    /\ []((tree = ProgResolve /\ Ended) => phase = "analyzed")

\* inside the if block of the loop of f the analyzer has accepted a, which
\* is declared by the program three scopes further out
C11_Witness ==
    /\ phase = "analyzing"
    /\ exc = NoException
    /\ tree = ProgResolve
    /\ Top.fn = "NodeBinaryArithmeticOperation"
    /\ Top.node.left = Id("a")
    /\ Top.i = 1
    /\ Len(current_scope) = 4
    /\ "a" \in DOMAIN current_scope[1].symbols
    /\ \A k \in 2..4 : "a" \notin DOMAIN current_scope[k].symbols

\* the declarations of functions and procedures whose body the analyzer is
\* inside of, outermost first
OpenSubroutines ==
    SelectSeq(OpenScopes,
              LAMBDA f : f.fn \in {"NodeFunctionDeclaration", "NodeProcedureDeclaration"})

\* C12: a give statement outside every function and procedure body is
\* rejected; otherwise the innermost body it is in decides, however many if
\* and while blocks lie between: in a function a give without expression is
\* rejected (function empty give) and one with an expression goes on to its
\* expression; in a procedure a give with an expression is rejected
\* (procedure giving value) and one without is accepted; the program
\* { proc p() { give 1 } exec p() } is rejected with procedure giving value.
C12_GiveLegality ==
    /\ [][AnalyzerAt("NodeGiveStatement")
          => LET n == Len(OpenSubroutines)
                 expression == Top.node.expression
             IN  IF n = 0 THEN Raises(SemanticError("SEM_WRONG_SYMBOL_TYPE"))
                 ELSE IF OpenSubroutines[n].fn = "NodeFunctionDeclaration"
                 THEN IF expression = NoNode
                      THEN Raises(SemanticError("SEM_FUNCTION_EMPTY_GIVE"))
                      ELSE Calls(At(Top, "expression"), expression.kind, expression)
                 ELSE IF expression # NoNode
                      THEN Raises(SemanticError("SEM_PROCEDURE_GIVING_VALUE"))
                      ELSE Returns(None)]_vars
    /\ []((tree = ProgProcedureGivesOne /\ Ended)
          => RejectedWith("SEM_PROCEDURE_GIVING_VALUE"))

\* the empty give of a procedure declared inside a function and the gives
\* with a value inside the loop of that function have all been accepted
C12_Witness ==
    /\ tree = ProgNestedGive
    /\ phase = "analyzed"
    /\ exc = NoException

\* C13: a skip or stop statement is accepted when the analyzer is inside the
\* block of some while loop, however many if, elif and else blocks lie
\* between, and rejected (skip resp. stop outside while) when it is inside
\* none; inside an if or else block that no loop encloses, and after a loop,
\* it is rejected.
C13_LoopControlLegality ==
    /\ [][(/\ phase = "analyzing"
           /\ exc = NoException
           /\ Top.fn \in {"NodeSkipStatement", "NodeStopStatement"})
          => IF \E k \in DOMAIN ctl :
                    ctl[k].fn = "NodeWhileStatement" /\ ctl[k].pc = "block"
             THEN Returns(None)
             ELSE Raises(SemanticError(IF Top.fn = "NodeSkipStatement"
                                       THEN "SEM_SKIP_STATEMENT_OUTSIDE_WHILE"
                                       ELSE "SEM_STOP_STATEMENT_OUTSIDE_WHILE"))]_vars
    /\ []((tree = ProgSkipInIf /\ Ended)
          => RejectedWith("SEM_SKIP_STATEMENT_OUTSIDE_WHILE"))
    /\ []((tree \in {ProgStopInElse, ProgStopAfterLoop} /\ Ended)
          => RejectedWith("SEM_STOP_STATEMENT_OUTSIDE_WHILE"))

\* skip and stop two if blocks inside a while loop have been accepted
C13_Witness ==
    /\ tree = ProgLoopControlDeep
    /\ phase = "analyzed"
    /\ exc = NoException

\* C14: an assignment whose target resolves to nothing is rejected with the
\* undeclared-identifier error, to a constant with assignment-to-constant,
\* to a function, procedure or built-in type with wrong-symbol-type, each
\* before the right-hand side is visited; only a target that resolves to a
\* variable makes the analyzer visit the right-hand side, after which the
\* assignment is accepted.
C14_AssignmentTarget ==
    [][/\ AnalyzerAt("NodeAssignmentStatement")
          => LET symbol == Resolved(current_scope, Top.node.identifier.name)
             IN  CASE symbol = <<>> -> Raises(SemanticError("SEM_UNDECLARED_IDENTIFIER"))
                   [] symbol # <<>> /\ symbol[1].kind = "ConstantSymbol" ->
                        Raises(SemanticError("SEM_ASSIGNMENT_TO_CONSTANT"))
                   [] symbol # <<>> /\ symbol[1].kind \in
                        {"FunctionSymbol", "ProcedureSymbol", "BuiltInTypeSymbol"} ->
                        Raises(SemanticError("SEM_WRONG_SYMBOL_TYPE"))
                   [] symbol # <<>> /\ symbol[1].kind = "VariableSymbol" ->
                        Calls(At(Top, "expression"), Top.node.expression.kind,
                              Top.node.expression)
       /\ (/\ phase = "analyzing"
           /\ exc = NoException
           /\ Top.fn = "NodeAssignmentStatement"
           /\ Top.pc = "expression")
          => Returns(None)
       /\ (/\ phase = "analyzing"
           /\ Top.fn = "NodeAssignmentStatement"
           /\ Len(ctl') > Len(ctl))
          => Resolved(current_scope, Top.node.identifier.name)[1].kind = "VariableSymbol"]_vars

\* the assignment f = y to a function was rejected as a wrong symbol type,
\* not for the undeclared y on its right-hand side
C14_Witness ==
    /\ tree = ProgAssignFunction
    /\ RejectedWith("SEM_WRONG_SYMBOL_TYPE")

\* C15: a call of a name that resolves to a symbol of the class the call
\* expects (a function for a function call, a procedure for exec) goes on to
\* its arguments, first one first, only when it has as many arguments as the
\* symbol has parameters, an absent list counting as none; with any other
\* number it is rejected with the wrong-number-of-arguments error and no
\* argument is visited; a name that resolves to a symbol of another class is
\* rejected as a wrong symbol type.
C15_CallArity ==
    [][(\/ AnalyzerAt("NodeFunctionCall")
        \/ AnalyzerAt("NodeProcedureCall"))
       => LET symbol == Resolved(current_scope, Top.node.identifier.name)
              class == IF Top.fn = "NodeFunctionCall" THEN "FunctionSymbol"
                       ELSE "ProcedureSymbol"
              arguments == IF Top.node.arguments = <<>> THEN <<>>
                           ELSE Top.node.arguments[1]
              parameters == IF symbol[1].parameters = <<>> THEN <<>>
                            ELSE symbol[1].parameters[1]
          IN  CASE symbol = <<>> -> Raises(SemanticError("SEM_UNDECLARED_IDENTIFIER"))
                [] symbol # <<>> /\ symbol[1].kind # class ->
                        Raises(SemanticError("SEM_WRONG_SYMBOL_TYPE"))
                [] symbol # <<>> /\ symbol[1].kind = class
                                 /\ Len(arguments) # Len(parameters) ->
                        Raises(SemanticError("SEM_WRONG_NUMBER_OF_ARGUMENTS"))
                [] symbol # <<>> /\ symbol[1].kind = class
                                 /\ Len(arguments) = Len(parameters) ->
                        IF arguments = <<>> THEN Returns(None)
                        ELSE Calls([Top EXCEPT !.pc = "arguments", !.i = 1],
                                   arguments[1].kind, arguments[1])]_vars

\* the call f(y, z) of a function of one parameter was rejected for the
\* number of its arguments, not for the undeclared y
C15_Witness ==
    /\ tree = ProgArityBeforeArguments
    /\ RejectedWith("SEM_WRONG_NUMBER_OF_ARGUMENTS")

(***************************************************************************)
(* The source texts the parser is run on.                                  *)
(***************************************************************************)
\* the longest chain of binary operators in the generated expressions
MaxOperators == 2

\* the spec's example of a block whose statements share a line
TextSameLine == Chars("{ let int x = 2 show x + 3 }")

TextOwnLines == Chars("{\n let int x = 2\n\n show x + 3\n}")

TextEmptyBlock == Chars("{ }")

TextBlankLines == Chars("{\n\n # nothing\n \n show 1 # one\n \n}")

TextCallStatement == Chars("{ f(1) }")

TextCallNoArguments == Chars("{\n g()\n}")

TextAssignment == Chars("{ x = 1 }")

TextAssignCall == Chars("{ x = f(1, y) + g() }")

TextIdentifierAlone == Chars("{ x }")

TextParenthesisFirst == Chars("{ show (1 + 2) * 3 }")

TextParenthesisCompared == Chars("{ show (a) < b }")

TextParenthesisLast == Chars("{ show 3 * (1 + 2) }")

TextParenthesisRight == Chars("{ show a < (b) }")

TextParenthesisBoolean == Chars("{ show (a < b) }")

TextParenthesisOpen == Chars("{ show 3 * (1 + 2 }")

TextEverything ==
    Chars("{\n func f(int a, float b) -> int {\n give a\n }\n proc p() {\n give\n }\n"
          \o " keep bool t = true\n let int x, y = 1, 2\n let string s\n x = f(x, 2.5)\n"
          \o " exec p()\n exec q(1)\n if x < y or not t and (t) {\n skip\n } elif x == 1 {\n"
          \o " stop\n } else {\n show \"a\"\n }\n while t {\n y = +x\n }\n}")

TextIfOnly == Chars("{ if true { } }")

TextIfElse == Chars("{ if not (false) { } else { } }")

TextIfElifs == Chars("{ if x { } elif y { } elif z { } }")

TextExpressionsMissing == Chars("{ let int x, y = 1 }")

TextConstantUninitialized == Chars("{ keep int x }")

TextTypeMissing == Chars("{ let x = 1 }")

TextStatementMissing == Chars("{ 1 }")

TextTrailing == Chars("{ } }")

TextTrailingNewline == Chars("{ show 1 }\n")

TextTrailingStatement == Chars("{ }\nshow 1")

TextTrailingComment == Chars("{ show 1 } # done")

TextUnterminatedString == Chars("{ show \"a }")

TextBadCharacter == Chars("{ show 1 ? 2 }")

TextBadStart == Chars("?")

NamedTexts ==
    {TextSameLine, TextOwnLines, TextEmptyBlock, TextBlankLines, TextCallStatement,
     TextCallNoArguments, TextAssignment, TextAssignCall, TextIdentifierAlone,
     TextParenthesisFirst, TextParenthesisCompared, TextParenthesisLast,
     TextParenthesisRight, TextParenthesisBoolean, TextParenthesisOpen, TextEverything,
     TextIfOnly, TextIfElse, TextIfElifs, TextExpressionsMissing,
     TextConstantUninitialized, TextTypeMissing, TextStatementMissing, TextTrailing,
     TextTrailingNewline, TextTrailingStatement, TextTrailingComment,
     TextUnterminatedString, TextBadCharacter, TextBadStart}

\* the binary arithmetic operators of the language, by their token type
OperatorLexemes ==
    [PLUS |-> "+", MINUS |-> "-", MULTIPLY |-> "*", DIVIDE |-> "/",
     FLOOR_DIVIDE |-> "//", MODULO |-> "%", POWER |-> "**"]

\* the i-th operand of a generated expression: the digit i, negated when
\* i = negated
OperandText(i, negated) == (IF i = negated THEN "-" ELSE "") \o ToString(i)

RECURSIVE ChainText(_, _, _)
\* operands i.. of the chain with the operators types between them
ChainText(types, negated, i) ==
    IF i > Len(types) THEN OperandText(i, negated)
    ELSE OperandText(i, negated) \o " " \o OperatorLexemes[types[i]] \o " "
            \o ChainText(types, negated, i + 1)

ExpressionText(types, negated) == Chars("{ show " \o ChainText(types, negated, 1) \o " }")

\* every chain of 1..MaxOperators binary operators over the operands
\* 1, 2, ..., with none of them, the first or the second negated
ExpressionTexts ==
    {ExpressionText(types, negated) :
        <<types, negated>> \in
            UNION {[1..n -> DOMAIN OperatorLexemes] \X (0..2) : n \in 1..MaxOperators}}

SourceTexts == NamedTexts \cup ExpressionTexts

InitParse ==
    /\ text \in SourceTexts
    /\ lexer = LexicalAnalyzer
    /\ current_token = NoToken
    /\ peeked = NoToken
    /\ tree = NoNode
    /\ phase = "ready"
    /\ ctl = <<>>
    /\ ret = None
    /\ exc = NoException
    /\ call_stack = <<>>
    /\ functions = EmptyDict
    /\ procedures = EmptyDict
    /\ out = <<>>
    /\ current_scope = <<>>

NextParse ==
    \/ SyntacticAnalyzer
    \/ parse
    \/ _peek_next_token
    \/ _program
    \/ _block
    \/ _statement
    \/ _variable_declaration
    \/ _constant_declaration
    \/ _identifier_list
    \/ _expression_list
    \/ _function_declaration
    \/ _procedure_declaration
    \/ _parameter_list
    \/ _parameter
    \/ _give_type
    \/ _function_call
    \/ _procedure_call
    \/ _argument_list
    \/ _assignment_statement
    \/ _give_statement
    \/ _show_statement
    \/ _if_statement
    \/ _elifs
    \/ _elif
    \/ _else
    \/ _while_statement
    \/ _skip_statement
    \/ _stop_statement
    \/ _type
    \/ _identifier
    \/ _expression
    \/ _boolean_expression
    \/ _logical_or_expression
    \/ _logical_and_expression
    \/ _logical_not_expression
    \/ _primary_boolean_expression
    \/ _comparison_expression
    \/ _arithmetic_expression
    \/ _additive_expression
    \/ _multiplicative_expression
    \/ _power_expression
    \/ _unary_expression
    \/ _primary_expression
    \/ Propagate

SpecParse == InitParse /\ [][NextParse]_vars

(***************************************************************************)
(* The token stream of the text, scanned from its start without a parser.  *)
(***************************************************************************)
RECURSIVE Scans(_)
\* the scans next_token makes from scanner L on, up to the end of the text
\* or to the first lexical error
Scans(L) ==
    LET scan == next_token(L)
    IN  IF scan.error # NoException THEN <<>>
        ELSE IF scan.token.type = "EOF" THEN <<scan>>
        ELSE <<scan>> \o Scans(scan.lexer)

ScannerTrace == Scans(LexicalAnalyzer)

RECURSIVE Ahead(_, _, _)
\* the token and the scanner k tokens further down the stream than token
\* with the scanner L right after it
Ahead(token, L, k) ==
    IF k = 0 THEN Scanned(token, L)
    ELSE LET scan == next_token(L)
         IN  IF scan.error # NoException THEN scan
             ELSE Ahead(scan.token, scan.lexer, k - 1)

\* C16: speculative lookahead is reversible.  The parser starts at the
\* first token of the scanner's stream, and every step it takes without an
\* exception leaves it where it was or moves it down the stream token by
\* token, the scanner standing right after the current token: no token is
\* skipped or read twice.  A peek (_peek_next_token) yields the token after
\* the current one and leaves the scanner's position, current character,
\* line and column and the parser's current token as they were, and the
\* identifier-versus-call lookahead of _primary_expression hands the call
\* to _function_call with the identifier as current token again.
C16_LookaheadReversible ==
    [][/\ (phase = "ready" /\ exc' = NoException) =>
            Scanned(current_token', lexer') = Ahead(NoToken, LexicalAnalyzer, 1)
       /\ (phase = "parsing" /\ exc = NoException /\ exc' = NoException) =>
            /\ \E k \in 0..2 :
                    Scanned(current_token', lexer') = Ahead(current_token, lexer, k)
            /\ peeked' # NoToken =>
                    /\ lexer' = lexer
                    /\ current_token' = current_token
                    /\ peeked' = Ahead(current_token, lexer, 1).token
            /\ (Top.fn = "_primary_expression" /\ ctl' # <<>>
                      /\ ctl'[Len(ctl')].fn = "_function_call") =>
                    /\ current_token' = current_token
                    /\ lexer' = lexer]_vars

\* the primary expression f(1, y) has been handed to _function_call with
\* f as the current token again, and a peek has then yielded the
\* parenthesis without moving the scanner
C16_Witness ==
    /\ text = TextAssignCall
    /\ phase = "parsing"
    /\ exc = NoException
    /\ Top.fn = "_function_call"
    /\ Top.pc = "start"
    /\ current_token.type = "IDENTIFIER"
    /\ current_token.value = PyStr(<<"f">>)
    /\ peeked.type = "LEFT_PARENTHESIS"
    /\ lexer.current_char = "("

\* the parse has ended: parse has returned the tree or raised
ParseEnded == phase \in {"parsed", "failed"}

\* the statements of the program parse has returned
ParsedStatements == IF ret.block.statements = <<>> THEN <<>> ELSE ret.block.statements[1]

\* C17: the NEWLINE after a statement of a block is optional: the block
\* { let int x = 2 show x + 3 }, whose two statements share a line, parses
\* into the declaration followed by the show statement.
C17_NewlineOptional ==
    (text = TextSameLine /\ ParseEnded) =>
        /\ phase = "parsed"
        /\ Len(ParsedStatements) = 2
        /\ ParsedStatements[1].kind = "NodeVariableDeclaration"
        /\ ParsedStatements[2].kind = "NodeShowStatement"

\* C18: a statement that starts with an identifier followed by a
\* parenthesis is parsed as a function call, and one that starts with an
\* identifier followed by = as an assignment.
C18_IdentifierDispatch ==
    /\ (text \in {TextCallStatement, TextCallNoArguments} /\ ParseEnded) =>
            /\ phase = "parsed"
            /\ Len(ParsedStatements) = 1
            /\ ParsedStatements[1].kind = "NodeFunctionCall"
    /\ (text \in {TextAssignment, TextAssignCall} /\ ParseEnded) =>
            /\ phase = "parsed"
            /\ Len(ParsedStatements) = 1
            /\ ParsedStatements[1].kind = "NodeAssignmentStatement"

\* the expression a show statement shows, as an arithmetic expression
Shown(statement) ==
    IF statement.expression.kind = "NodeArithmeticExpressionAsBoolean"
    THEN statement.expression.expression
    ELSE statement.expression

\* C19: a parenthesized expression is accepted as the first operand of an
\* expression: (1 + 2) * 3 parses as a multiplication whose left operand is
\* the sum, and (a) < b as a comparison.
C19_ParenthesizedPrimary ==
    /\ (text = TextParenthesisFirst /\ ParseEnded) =>
            /\ phase = "parsed"
            /\ Len(ParsedStatements) = 1
            /\ Shown(ParsedStatements[1]).kind = "NodeBinaryArithmeticOperation"
            /\ Shown(ParsedStatements[1]).operator = PyStr(<<"*">>)
            /\ Shown(ParsedStatements[1]).left.kind = "NodeBinaryArithmeticOperation"
            /\ Shown(ParsedStatements[1]).left.operator = PyStr(<<"+">>)
    /\ (text = TextParenthesisCompared /\ ParseEnded) =>
            /\ phase = "parsed"
            /\ Len(ParsedStatements) = 1
            /\ ParsedStatements[1].expression.kind = "NodeComparison"

(***************************************************************************)
(* The reference grammar of arithmetic expressions, by splitting the       *)
(* token sequence at its loosest operator.                                 *)
(***************************************************************************)
\* the positions in lo..hi of the binary operators of the types types: an
\* operator is binary when an operand ends right before it
BinaryAt(tokens, lo, hi, types) ==
    {k \in lo + 1..hi : tokens[k].type \in types /\ tokens[k - 1].type = "INT_LITERAL"}

Greatest(S) == CHOOSE k \in S : \A j \in S : j <= k

Least(S) == CHOOSE k \in S : \A j \in S : k <= j

RECURSIVE Reference(_, _, _)
\* the tree of the expression tokens[lo..hi]: + and - bind loosest and
\* group left, so the last of them is the root; then * / // %, likewise;
\* then **, which groups right, so the first of them is the root; then the
\* prefix operators
Reference(tokens, lo, hi) ==
    LET additive == BinaryAt(tokens, lo, hi, {"PLUS", "MINUS"})
        multiplicative ==
            BinaryAt(tokens, lo, hi, {"MULTIPLY", "DIVIDE", "FLOOR_DIVIDE", "MODULO"})
        power == BinaryAt(tokens, lo, hi, {"POWER"})
        Split(k) ==
            NodeBinaryArithmeticOperation(Reference(tokens, lo, k - 1), tokens[k].value,
                                          Reference(tokens, k + 1, hi))
    IN  IF additive # {} THEN Split(Greatest(additive))
        ELSE IF multiplicative # {} THEN Split(Greatest(multiplicative))
        ELSE IF power # {} THEN Split(Least(power))
        ELSE IF tokens[lo].type \in {"PLUS", "MINUS"}
        THEN NodeUnaryArithmeticOperation(tokens[lo].value, Reference(tokens, lo + 1, hi))
        ELSE NodeIntegerLiteral(tokens[lo].value)

\* C20: the tree parsed for a chain of arithmetic operators is the tree of
\* the reference grammar: + and - bind loosest and group left, * / // %
\* bind tighter and group left, ** binds tighter still and groups right,
\* and the prefix operators bind tighter than **.
C20_PrecedenceAndAssociativity ==
    (text \in ExpressionTexts /\ ParseEnded) =>
        LET tokens == [i \in 1..Len(ScannerTrace) |-> ScannerTrace[i].token]
        IN  /\ phase = "parsed"
            /\ ParsedStatements =
                  <<NodeShowStatement(NodeArithmeticExpressionAsBoolean(
                        Reference(tokens, 3, Len(tokens) - 2)))>>

\* 1 ** -2 ** 3 has been parsed as 1 ** ((-2) ** 3)
C20_Witness ==
    /\ text = ExpressionText(<<"POWER", "POWER">>, 2)
    /\ phase = "parsed"
    /\ Shown(ParsedStatements[1]).operator = PyStr(<<"*", "*">>)
    /\ Shown(ParsedStatements[1]).left = NodeIntegerLiteral(PyInt(1))
    /\ Shown(ParsedStatements[1]).right.operator = PyStr(<<"*", "*">>)
    /\ Shown(ParsedStatements[1]).right.left.kind = "NodeUnaryArithmeticOperation"
    /\ Shown(ParsedStatements[1]).right.right = NodeIntegerLiteral(PyInt(3))

\* the texts in which a token other than EOF follows the closing brace of
\* the program block
TrailingTexts == {TextTrailing, TextTrailingNewline, TextTrailingStatement}

\* C21: parse returns a tree only when the token after the closing brace
\* of the program block is EOF.  When another token is left there, a
\* NEWLINE of a trailing line break included, parse raises the syntax
\* error UNEXPECTED_TOKEN with that token as the found one.
C21_TrailingTokens ==
    /\ phase = "parsed" =>
            /\ current_token.type = "EOF"
            /\ ret.kind = "NodeProgram"
            /\ text \notin TrailingTexts
    /\ (text \in TrailingTexts /\ ParseEnded) =>
            /\ phase = "failed"
            /\ exc = SyntacticError("UNEXPECTED_TOKEN")
            /\ current_token.type \in {"RIGHT_BRACE", "NEWLINE"}

\* parse has raised at the NEWLINE token of the line break that ends the
\* text, the program block before it being complete
C21_Witness ==
    /\ text = TextTrailingNewline
    /\ phase = "failed"
    /\ exc = SyntacticError("UNEXPECTED_TOKEN")
    /\ current_token.type = "NEWLINE"
    /\ lexer.current_char = NoChar

(***************************************************************************)
(* The scanner on its own: tokenize() run on a source text.                *)
(***************************************************************************)
\* the longest generated source text
MaxText == 4

LexAlphabet == {"1", ".", " ", "\n", "#", "a", "\""}

TextThreeParts == Chars("1.2.3")

TextPointLast == Chars("1.2.")

TextEscapedNewline == Chars("\"a\\\nb\"\n")

TextOperators == Chars("a->b ** 2 // 3 == 4 != 5 <= 6 >= (7, 8):{ }")

TextInvalidCharacter == Chars("a ? b")

TextLines == Chars("a # one\n\n\n  b\n \n\tc")

TextSuperscript == <<"1", SUPERSCRIPT_TWO, " ", "+">>

NamedLexTexts ==
    {TextThreeParts, TextPointLast, TextEscapedNewline, TextOperators,
     TextInvalidCharacter, TextLines, TextSuperscript}

LexTexts == UNION {[1..n -> LexAlphabet] : n \in 0..MaxText} \cup NamedLexTexts

InitLex ==
    /\ text \in LexTexts
    /\ lexer = LexicalAnalyzer
    /\ current_token = NoToken
    /\ peeked = NoToken
    /\ tree = NoNode
    /\ phase = "ready"
    /\ ctl = <<>>
    /\ ret = None
    /\ exc = NoException
    /\ call_stack = <<>>
    /\ functions = EmptyDict
    /\ procedures = EmptyDict
    /\ out = <<>>
    /\ current_scope = <<>>

\* the call of tokenize(): tokens = []
LexicalAnalyzer_tokenize ==
    /\ phase = "ready"
    /\ phase' = "scanning"
    /\ ctl' = <<Frame("tokenize", NoNode)>>
    /\ UNCHANGED <<text, lexer, current_token, peeked, current_scope, tree, ret, exc,
                   call_stack, functions, procedures, out>>

\* an iteration of the loop of tokenize(): a call of next_token() and the
\* append of its token; loc is the list tokens
LexicalAnalyzer_next_token ==
    /\ phase = "scanning"
    /\ LET scan == next_token(lexer)
           tokens == Append(Top.loc, scan.token)
       IN  /\ lexer' = scan.lexer
           /\ current_token' = scan.token
           /\ exc' = scan.error
           /\ IF scan.error # NoException
              THEN ctl' = <<>> /\ ret' = None /\ phase' = "failed"
              ELSE IF scan.token.type = "EOF"
              THEN ctl' = <<>> /\ ret' = tokens /\ phase' = "scanned"
              ELSE ctl' = <<Local(Top, "loop", tokens)>> /\ ret' = ret /\ phase' = phase
    /\ UNCHANGED <<text, peeked, current_scope, tree, call_stack, functions, procedures, out>>

NextLex ==
    \/ LexicalAnalyzer_tokenize
    \/ LexicalAnalyzer_next_token

SpecLex == InitLex /\ [][NextLex]_vars

\* tokenize() has returned or raised
ScanEnded == phase \in {"scanned", "failed"}

\* the text is made of digits and points only
NumberText ==
    /\ text # <<>>
    /\ \A i \in 1..Len(text) : isdigit(text[i]) \/ text[i] = "."

\* at most one point, and a digit right after it
OnePointAtMost ==
    /\ Cardinality({i \in 1..Len(text) : text[i] = "."}) <= 1
    /\ \A i \in 1..Len(text) : text[i] = "." => i < Len(text) /\ isdigit(text[i + 1])

\* C22: digits with at most one decimal point are scanned as a single
\* number token; a lone point, a point not followed by a digit and a
\* literal with a second point are rejected with the lexical error
\* INVALID_NUMBER_FORMAT.
C22_NumericLiterals ==
    (NumberText /\ ScanEnded) =>
        IF OnePointAtMost
        THEN /\ phase = "scanned"
             /\ Len(ret) = 2
             /\ ret[1].type \in {"INT_LITERAL", "FLOAT_LITERAL"}
             /\ ret[2].type = "EOF"
        ELSE /\ phase = "failed"
             /\ exc = LexicalError("INVALID_NUMBER_FORMAT")

\* the places in the text where a maximal run of newline characters starts
NewlineRuns ==
    {i \in 1..Len(text) : text[i] = "\n" /\ (i = 1 \/ text[i - 1] # "\n")}

\* the line and the column of the i-th character of the text
LineOf(i) == 1 + Cardinality({j \in 1..i - 1 : text[j] = "\n"})

ColumnOf(i) ==
    LET before == {j \in 1..i - 1 : text[j] = "\n"}
    IN  IF before = {} THEN i ELSE i - (CHOOSE j \in before : \A k \in before : k <= j)

\* the text holds nothing but whitespace and comments
BlankText ==
    \A i \in 1..Len(text) :
        \/ text[i] \in {" ", "\t", "\n"}
        \/ \E j \in 1..i : text[j] = "#" /\ \A k \in j..i : text[k] # "\n"

\* C23: every maximal run of newline characters of the source produces
\* exactly one NEWLINE token, positioned at the first newline of the run;
\* other whitespace and comments produce no token.
C23_NewlineTokens ==
    phase = "scanned" =>
        LET newlines == SelectSeq(ret, LAMBDA token : token.type = "NEWLINE")
        IN  /\ Len(newlines) = Cardinality(NewlineRuns)
            /\ {<<newlines[n].line, newlines[n].column>> : n \in 1..Len(newlines)}
                  = {<<LineOf(i), ColumnOf(i)>> : i \in NewlineRuns}
            /\ BlankText => \A n \in 1..Len(ret) : ret[n].type \in {"NEWLINE", "EOF"}

(***************************************************************************)
(* The calculator (src/calc1.py): a lexer over INTEGER, PLUS, MINUS, MUL,  *)
(* DIV and EOF, and a parser that evaluates as it parses.                  *)
(***************************************************************************)
calc1_Token(type, value) == [type |-> type, value |-> value]

\* Lexer.__init__; NoChar stands for a current_char of None
calc1_Lexer == [pos |-> 0, current_char |-> IF text # <<>> THEN text[1] ELSE NoChar]

\* Lexer.error and Parser.error
InvalidCharacter == Exception("Exception", "Invalid character")

InvalidSyntax == Exception("Exception", "Invalid syntax")

DivisionByZero == Exception("Exception", "Division by zero")

\* Lexer.advance
calc1_advance(L) ==
    LET pos == L.pos + 1
    IN  [pos |-> pos,
         current_char |-> IF pos > Len(text) - 1 THEN NoChar ELSE text[pos + 1]]

\* Lexer.skip_whitespace
RECURSIVE calc1_skip_whitespace(_)
calc1_skip_whitespace(L) ==
    IF L.current_char # NoChar /\ isspace(L.current_char)
    THEN calc1_skip_whitespace(calc1_advance(L))
    ELSE L

\* Lexer.read_number: the loop, result being the digits read so far (the
\* int(result) it returns is taken in next_token)
RECURSIVE calc1_read_number(_, _)
calc1_read_number(L, result) ==
    IF L.current_char # NoChar /\ isdigit(L.current_char)
    THEN calc1_read_number(calc1_advance(L), Append(result, L.current_char))
    ELSE [lexer |-> L, result |-> result]

calc1_operators == [p \in {"+", "-", "*", "/"} |->
    CASE p = "+" -> "PLUS" [] p = "-" -> "MINUS" [] p = "*" -> "MUL" [] p = "/" -> "DIV"]

\* Lexer.next_token
RECURSIVE calc1_next_token(_)
calc1_next_token(L) ==
    LET c == L.current_char
        number == calc1_read_number(L, <<>>)
    IN  IF c = NoChar
        THEN [token |-> calc1_Token("EOF", None), lexer |-> L, error |-> NoException]
        ELSE IF isspace(c) THEN calc1_next_token(calc1_skip_whitespace(L))
        ELSE IF isdigit(c)
        THEN IF NoNumber(number.result) THEN ScanError(ValueError, number.lexer)
             ELSE [token |-> calc1_Token("INTEGER", PyInt(ParseNat(number.result))),
                   lexer |-> number.lexer, error |-> NoException]
        ELSE IF c \in DOMAIN calc1_operators
        THEN [token |-> calc1_Token(calc1_operators[c], PyStr(<<c>>)),
              lexer |-> calc1_advance(L), error |-> NoException]
        ELSE ScanError(InvalidCharacter, L)

\* Parser.consume by parser p
calc1_consume(p, token_type) ==
    IF p.token.type = token_type THEN calc1_next_token(p.lexer)
    ELSE [p EXCEPT !.error = InvalidSyntax]

\* main: lexer = Lexer(expr); parser = Parser(lexer), whose __init__ reads
\* the first token; result = parser.expr()
calc1_main ==
    /\ phase = "ready"
    /\ LET scan == calc1_next_token(calc1_Lexer)
       IN  /\ lexer' = scan.lexer
           /\ current_token' = scan.token
           /\ exc' = scan.error
           /\ IF scan.error # NoException
              THEN ctl' = <<>> /\ phase' = "failed"
              ELSE ctl' = <<Frame("expr", NoNode)>> /\ phase' = "parsing"
    /\ UNCHANGED <<text, peeked, current_scope, tree, ret, call_stack, functions,
                   procedures, out>>

\* Parser.factor
FactorStep(f, p) ==
    LET token == p.token
    IN  Then(calc1_consume(p, "INTEGER"),
             IF token.value.t = "int" THEN Return(token.value) ELSE Raise(InvalidSyntax))

calc1_factor == Parsing("factor") /\ Parse(FactorStep(Top, Here))

\* the while loop of term (operators MUL, DIV over factor) and of expr
\* (operators PLUS, MINUS over term), tested with result in hand
OperatorLoop(f, p, types, operand, result) ==
    IF p.token.type \in types
    THEN Then(calc1_consume(p, p.token.type),
              Invoke(Local(f, p.token.type, <<result>>), operand))
    ELSE Then(p, Return(result))

\* Parser.term
TermStep(f, p) ==
    CASE f.pc = "start" -> Then(p, Invoke(At(f, "factor"), "factor"))
      [] f.pc = "factor" -> OperatorLoop(f, p, {"MUL", "DIV"}, "factor", ret)
      [] f.pc = "MUL" ->
            OperatorLoop(f, p, {"MUL", "DIV"}, "factor",
                         BinaryArithmetic("*", f.loc[1], ret).value)
      [] f.pc = "DIV" ->
            IF IsZero(ret) THEN Then(p, Raise(DivisionByZero))
            ELSE OperatorLoop(f, p, {"MUL", "DIV"}, "factor",
                              BinaryArithmetic("/", f.loc[1], ret).value)

calc1_term == Parsing("term") /\ Parse(TermStep(Top, Here))

\* Parser.expr
ExprStep(f, p) ==
    CASE f.pc = "start" -> Then(p, Invoke(At(f, "term"), "term"))
      [] f.pc = "term" -> OperatorLoop(f, p, {"PLUS", "MINUS"}, "term", ret)
      [] f.pc = "PLUS" ->
            OperatorLoop(f, p, {"PLUS", "MINUS"}, "term",
                         BinaryArithmetic("+", f.loc[1], ret).value)
      [] f.pc = "MINUS" ->
            OperatorLoop(f, p, {"PLUS", "MINUS"}, "term",
                         BinaryArithmetic("-", f.loc[1], ret).value)

calc1_expr == Parsing("expr") /\ Parse(ExprStep(Top, Here))

(***************************************************************************)
(* The expressions the calculator is given.                                *)
(***************************************************************************)
CalcAlphabet == {"1", "0", " ", "+", "/", "a"}

TextTwoIntegers == Chars("12 34")

TextEveryOperator == Chars("7 + 3 * 2 - 8 / 4")

TextDoubledOperator == Chars("1 ** 2")

TextDivisionByZero == Chars("1 - 2 / 0")

NamedCalcTexts ==
    {TextTwoIntegers, TextEveryOperator, TextDoubledOperator, TextDivisionByZero}

CalcTexts == UNION {[1..n -> CalcAlphabet] : n \in 0..MaxText} \cup NamedCalcTexts

InitCalc ==
    /\ text \in CalcTexts
    /\ lexer = calc1_Lexer
    /\ current_token = NoToken
    /\ peeked = NoToken
    /\ tree = NoNode
    /\ phase = "ready"
    /\ ctl = <<>>
    /\ ret = None
    /\ exc = NoException
    /\ call_stack = <<>>
    /\ functions = EmptyDict
    /\ procedures = EmptyDict
    /\ out = <<>>
    /\ current_scope = <<>>

NextCalc ==
    \/ calc1_main
    \/ calc1_expr
    \/ calc1_term
    \/ calc1_factor
    \/ Propagate

SpecCalc == InitCalc /\ [][NextCalc]_vars

\* C24: Parser.expr() never returns a value while unconsumed tokens remain:
\* whenever it has returned, the parser's current token is EOF (so that two
\* integers with no operator between them, as in "1 2", are rejected)
C24_ExprRejectsIncomplete ==
    phase = "parsed" => current_token.type = "EOF"

(***************************************************************************)
(* The pipeline after parsing: a tree is analysed, and only a tree that    *)
(* analyze() accepted is handed to interpret().  The driver that chooses   *)
(* whether to run is not part of src/.                                     *)
(***************************************************************************)
\* { proc p() { }
\*   while true { proc p() { stop }
\*                stop }
\*   exec p() }
ProgStopEscapes ==
    Program(<<Proc("p", <<>>, <<>>),
              While(True, <<Proc("p", <<>>, <<NodeStopStatement>>),
                            NodeStopStatement>>),
              Exec("p", <<>>)>>)

\* { func f() -> number { give 1 }
\*   proc g() { let number x = 2
\*              func f() -> number { give x } }
\*   exec g()
\*   show f() }
ProgInnerOverrides ==
    Program(<<Func("f", <<>>, <<Give(Num(1))>>),
              Proc("g", <<>>, <<Let("x", Num(2)),
                                Func("f", <<>>, <<Give(Id("x"))>>)>>),
              Exec("g", <<>>),
              Show(Call("f", <<>>))>>)

\* { let number x = 2
\*   func f() -> number { give x }
\*   proc g() { show f() }
\*   exec g() }
ProgReadsEnclosing ==
    Program(<<Let("x", Num(2)),
              Func("f", <<>>, <<Give(Id("x"))>>),
              Proc("g", <<>>, <<Show(Call("f", <<>>))>>),
              Exec("g", <<>>)>>)

PipelineOnly == {ProgStopEscapes, ProgInnerOverrides, ProgReadsEnclosing}

PipelinePrograms == NamedPrograms \cup SemanticPrograms \cup PipelineOnly

InitPipeline ==
    /\ tree \in PipelinePrograms
    /\ phase = "ready"
    /\ ctl = <<>>
    /\ ret = None
    /\ exc = NoException
    /\ call_stack = <<>>
    /\ functions = EmptyDict
    /\ procedures = EmptyDict
    /\ out = <<>>
    /\ current_scope = GlobalScope
    /\ text = <<>>
    /\ lexer = LexicalAnalyzer
    /\ current_token = NoToken
    /\ peeked = NoToken

\* analyze(tree) has returned without an error: interpret(tree)
run ==
    /\ phase = "analyzed"
    /\ phase' = "running"
    /\ ctl' = <<Frame(tree.kind, tree)>>
    /\ UNCHANGED <<text, lexer, current_token, peeked, current_scope, tree, ret, exc,
                   call_stack, functions, procedures, out>>

NextPipeline ==
    \/ analyze
    \/ SemanticAnalyzer_visit_NodeProgram
    \/ SemanticAnalyzer_visit_NodeBlock
    \/ SemanticAnalyzer_visit_NodeVariableDeclaration
    \/ SemanticAnalyzer_visit_NodeConstantDeclaration
    \/ SemanticAnalyzer_visit_NodeFunctionDeclaration
    \/ SemanticAnalyzer_visit_NodeProcedureDeclaration
    \/ SemanticAnalyzer_visit_NodeAssignmentStatement
    \/ SemanticAnalyzer_visit_NodeFunctionCall
    \/ SemanticAnalyzer_visit_NodeProcedureCall
    \/ SemanticAnalyzer_visit_NodeGiveStatement
    \/ SemanticAnalyzer_visit_NodeShowStatement
    \/ SemanticAnalyzer_visit_NodeIfStatement
    \/ SemanticAnalyzer_visit_NodeElif
    \/ SemanticAnalyzer_visit_NodeElse
    \/ SemanticAnalyzer_visit_NodeWhileStatement
    \/ SemanticAnalyzer_visit_NodeSkipStatement
    \/ SemanticAnalyzer_visit_NodeStopStatement
    \/ SemanticAnalyzer_visit_NodeIdentifier
    \/ SemanticAnalyzer_visit_NodeArithmeticExpressionAsBoolean
    \/ SemanticAnalyzer_visit_NodeBinaryArithmeticOperation
    \/ SemanticAnalyzer_visit_NodeUnaryArithmeticOperation
    \/ SemanticAnalyzer_visit_NodeBinaryBooleanOperation
    \/ SemanticAnalyzer_visit_NodeUnaryBooleanOperation
    \/ SemanticAnalyzer_visit_NodeComparisonExpression
    \/ SemanticAnalyzer_visit_NodeNumberLiteral
    \/ SemanticAnalyzer_visit_NodeStringLiteral
    \/ SemanticAnalyzer_visit_NodeBooleanLiteral
    \/ run
    \/ visit_NodeProgram
    \/ visit_NodeBlock
    \/ visit_NodeVariableDeclaration
    \/ visit_NodeConstantDeclaration
    \/ visit_NodeAssignmentStatement
    \/ visit_NodeGiveStatement
    \/ visit_NodeShowStatement
    \/ visit_NodeFunctionDeclaration
    \/ visit_NodeProcedureDeclaration
    \/ visit_NodeFunctionCall
    \/ visit_NodeProcedureCall
    \/ visit_NodeIfStatement
    \/ visit_NodeWhileStatement
    \/ visit_NodeSkipStatement
    \/ visit_NodeStopStatement
    \/ visit_NodeIdentifier
    \/ visit_NodeBinaryArithmeticOperation
    \/ visit_NodeUnaryArithmeticOperation
    \/ visit_NodeBinaryBooleanOperation
    \/ visit_NodeUnaryBooleanOperation
    \/ visit_NodeComparisonExpression
    \/ visit_NodeArithmeticExpressionAsBoolean
    \/ visit_NodeNumberLiteral
    \/ visit_NodeStringLiteral
    \/ visit_NodeBooleanLiteral
    \/ _evaluate_boolean_expression
    \/ Propagate

SpecPipeline == InitPipeline /\ [][NextPipeline]_vars

\* C25: in a program that the analysis accepted, a skip or stop in flight is
\* never handed on by a function or procedure call to its caller, and never
\* leaves interpret()
C25_LoopSignalsStayInLoop ==
    (phase \in {"running", "raised"} /\ exc \in {SkipException, StopException}) =>
        /\ phase = "running"
        /\ Top.fn \notin {"NodeFunctionCall", "NodeProcedureCall"}

(***************************************************************************)
(* C26: the scope chain of the analyzer.                                   *)
(***************************************************************************)
\* the analyzer's innermost frame is on a scoped body it analysed without error
BodyAnalysed ==
    /\ phase = "analyzing"
    /\ exc = NoException
    /\ HoldsScope(Top)

\* the names the scope symbols holds as variables
VariableNames(scope) ==
    {n \in DOMAIN scope.symbols : scope.symbols[n].kind = "VariableSymbol"}

\* the parameter names of a declaration node (none for a block)
ParameterNames(node) ==
    IF node.kind \in {"NodeFunctionDeclaration", "NodeProcedureDeclaration"}
    THEN {ParameterSymbols(node)[k].identifier : k \in DOMAIN ParameterSymbols(node)}
    ELSE {}

\* a scope without its symbols
ScopeHead(scope) == [name |-> scope.name, type |-> scope.type, level |-> scope.level]

\* C26: the current scope starts as a root scope of kind program at level 1
\* holding the built-in type names and the root stays the outermost scope;
\* only a function, procedure, if, elif, else or while enters a scope, and
\* the scope entered is a new child one level below the scope that was
\* current, holding exactly the parameters; scopes that are not current
\* never change; when a body has been analysed without error the scope is
\* left for the one that was current before, and after analyze() has
\* returned the current scope is the root
C26_ScopeChain ==
    /\ current_scope = GlobalScope
    /\ ScopeHead(GlobalScope[1]) = [name |-> "global", type |-> "PROGRAM", level |-> 1]
    /\ DOMAIN GlobalScope[1].symbols = {"number", "string", "boolean"}
    /\ [](/\ ScopeHead(current_scope[1]) = ScopeHead(GlobalScope[1])
          /\ {"number", "string", "boolean"} \subseteq DOMAIN current_scope[1].symbols
          /\ \A k \in DOMAIN current_scope : current_scope[k].level = k)
    /\ [][/\ Len(current_scope') > Len(current_scope)
             => /\ Top.fn \in {"NodeFunctionDeclaration", "NodeProcedureDeclaration",
                               "NodeIfStatement", "NodeElif", "NodeElse",
                               "NodeWhileStatement"}
                /\ Len(current_scope') = Len(current_scope) + 1
                /\ ScopeHead(current_scope'[Len(current_scope)])
                      = ScopeHead(current_scope[Len(current_scope)])
                /\ LET child == current_scope'[Len(current_scope')]
                   IN  /\ child.level = current_scope[Len(current_scope)].level + 1
                       /\ child.type = ScopeTypeOf(Top)
                       /\ DOMAIN child.symbols = ParameterNames(Top.node)
                       /\ VariableNames(child) = ParameterNames(Top.node)
          /\ \A k \in 1..(Len(current_scope) - 1) :
                k <= Len(current_scope') => current_scope'[k] = current_scope[k]
          /\ Len(current_scope') < Len(current_scope) => BodyAnalysed
          /\ (BodyAnalysed /\ exc' = NoException)
             => current_scope' = SubSeq(current_scope, 1, Len(current_scope) - 1)]_vars
    /\ [](phase = "analyzed" => Len(current_scope) = 1)

\* the analyzer is at "give b" of f in ProgResolve: the while loop of f and
\* the if in it have been analysed and left, and the current scope is
\* again the scope of f, one level below the root, holding the parameter b
C26_Witness ==
    /\ phase = "analyzing"
    /\ exc = NoException
    /\ tree = ProgResolve
    /\ Top.fn = "NodeGiveStatement"
    /\ Len(current_scope) = 2
    /\ ScopeHead(current_scope[2]) = [name |-> "f", type |-> "FUNCTION", level |-> 2]
    /\ DOMAIN current_scope[2].symbols = {"b"}

\* C27: no execution of a program that the analysis accepted raises the
\* "identifier is not defined" runtime error
C27_AnalysisSoundForLookup ==
    phase \in {"running", "raised"} => exc # RuntimeError("UNDECLARED_IDENTIFIER")

(***************************************************************************)
(* C28: a call and the storage of its caller.                              *)
(***************************************************************************)
\* the calls whose body is running or has raised
OpenCalls ==
    {j \in DOMAIN ctl : /\ ctl[j].fn \in {"NodeFunctionCall", "NodeProcedureCall"}
                        /\ ctl[j].pc = "body"}

\* C28: a call leaves the record of its caller as it was: entering the call
\* puts the callee's record above the caller's, and from then until the call
\* has returned or raised, no step changes or removes the caller's record
\* (the names it binds and their values) or any record below it, whatever
\* the body declares and assigns
C28_CallerStorageUnchanged ==
    [][/\ Entering =>
            /\ SubSeq(call_stack', 1, Len(call_stack)) = call_stack
            /\ exc' = NoException =>
                    /\ Len(ctl') = Len(ctl) + 1
                    /\ ctl'[Len(ctl)].pc = "body"
                    /\ ctl'[Len(ctl)].rec = Len(call_stack)
       /\ \A j \in OpenCalls :
            /\ ctl[j].rec <= Len(call_stack')
            /\ \A k \in 1..ctl[j].rec : call_stack'[k] = call_stack[k]]_vars

\* f(5) of ProgFrames, which assigned to x and declared z, has returned:
\* the program is at "show x" with x still 1 and no z in its record
C28_Witness ==
    /\ phase = "running"
    /\ exc = NoException
    /\ tree = ProgFrames
    /\ Top.fn = "NodeShowStatement"
    /\ Top.node.expression = Id("x")
    /\ Top.pc = "start"
    /\ Len(out) = 1
    /\ Len(call_stack) = 1
    /\ call_stack[1].members["x"] = PyInt(1)
    /\ "z" \notin DOMAIN call_stack[1].members

(***************************************************************************)
(* C29: blocks and storage at run time.                                    *)
(***************************************************************************)
\* the interpreter takes a step of a declaration that writes its variable
Declares ==
    /\ phase = "running"
    /\ exc = NoException
    /\ Top.fn \in {"NodeVariableDeclaration", "NodeConstantDeclaration"}
    /\ call_stack' # call_stack

\* C29: only the program and a call push an activation record, and no step
\* of an if statement, a while statement or a block touches the call stack,
\* when it begins and when it ends; a let or keep, in a block or not, writes
\* its one name into the record that was on top of the call stack when the
\* declaration began, replacing the value the name had there and leaving
\* every other binding as it was.  In ProgShadow, which the analysis accepts,
\* the x declared in the while body is the x the program passes to f after
\* the loop
C29_BlocksShareStorage ==
    /\ [][/\ Len(call_stack') > Len(call_stack)
             => Top.fn \in {"NodeProgram", "NodeFunctionCall", "NodeProcedureCall"}
          /\ (phase = "running"
              /\ Top.fn \in {"NodeIfStatement", "NodeWhileStatement", "NodeBlock"})
             => call_stack' = call_stack
          /\ Declares =>
                LET index == IF Top.pc = "start" THEN 1 ELSE Top.i
                    name == Top.node.identifiers[index].name
                    rec == IF Top.pc = "start" THEN Len(call_stack) ELSE Top.rec
                    value == IF Top.pc = "expression" THEN ret
                             ELSE DEFAULT_VALUES[Top.node.type.name]
                IN  /\ rec \in DOMAIN call_stack
                    /\ DOMAIN call_stack' = DOMAIN call_stack
                    /\ \A k \in DOMAIN call_stack \ {rec} : call_stack'[k] = call_stack[k]
                    /\ DOMAIN call_stack'[rec].members
                          = DOMAIN call_stack[rec].members \cup {name}
                    /\ call_stack'[rec].members[name] = value
                    /\ \A n \in DOMAIN call_stack[rec].members \ {name} :
                          call_stack'[rec].members[n] = call_stack[rec].members[n]]_vars
    /\ []((tree = ProgShadow /\ phase \in {"returned", "raised"})
          => /\ phase = "returned"
             /\ out = <<<<"7">>, <<"5">>>>)

\* the while loop of ProgShadow has ended and the program is about to call
\* f(x): its one record holds the y and the x of the loop body, 2 and 5
C29_Witness ==
    /\ phase = "running"
    /\ exc = NoException
    /\ tree = ProgShadow
    /\ Top.fn = "NodeShowStatement"
    /\ Top.pc = "start"
    /\ Len(call_stack) = 1
    /\ call_stack[1].type = "PROGRAM"
    /\ call_stack[1].members["x"] = PyInt(5)
    /\ call_stack[1].members["y"] = PyInt(2)

(***************************************************************************)
(* C30: progress and termination of the scanner.                           *)
(***************************************************************************)
\* C30: every call of next_token() raises a lexical error, or returns the
\* end-of-input token with the position at the end of the text, or returns
\* another token after moving the position forward, never beyond the end of
\* the text; so the loop of tokenize() has appended no more tokens than the
\* position counts, it ends after at most one call for each character and
\* one for the end of the text, and the list it returns has one
\* end-of-input token, its last element
C30_ScanningProgress ==
    /\ [](lexer.position <= Len(text))
    /\ [][phase = "scanning" =>
            \/ /\ phase' = "failed"
               /\ exc'.class = "LexicalError"
            \/ /\ phase' = "scanned"
               /\ exc' = NoException
               /\ current_token'.type = "EOF"
               /\ lexer'.position = Len(text)
            \/ /\ phase' = "scanning"
               /\ exc' = NoException
               /\ current_token'.type # "EOF"
               /\ lexer'.position > lexer.position]_vars
    /\ [](phase = "scanning" => Len(Top.loc) <= lexer.position)
    /\ [](phase = "scanned" =>
            /\ ret # <<>>
            /\ Len(ret) <= Len(text) + 1
            /\ \A i \in DOMAIN ret : ret[i].type = "EOF" <=> i = Len(ret))

=============================================================================
